---------------------------- MODULE Spec2Model ----------------------------
(***************************************************************************)
(* Model of the lumberjack math-trace core:                                *)
(*   - MathTraceComputer (src/src/math_trace_computer.cpp): compute(),     *)
(*     startComputation(), cancelComputation(), collectTimestamps(),       *)
(*     isTimestampValid();                                                 *)
(*   - MathExpressionParser (src/src/math_expression_parser.cpp):          *)
(*     tokenize(), the recursive-descent parser, evaluate(),               *)
(*     getVariables();                                                     *)
(*   - the DataSeries operations the computer calls (data_series.hpp is    *)
(*     not part of the sources; they follow spec.md section 6).            *)
(*                                                                         *)
(* Doubles are modelled exactly: a finite double is a rational n/d in      *)
(* lowest terms, NaN and the infinities are values of their own.           *)
(* Timestamps are doubles holding whole milliseconds: integers here.       *)
(* Strings that the code scans character by character (the expression)     *)
(* are sequences of one-character strings.                                 *)
(***************************************************************************)
EXTENDS Integers, Sequences, FiniteSets, TLC

\* ------------------------------------------------------------------------
\* Bounds of the model
\* ------------------------------------------------------------------------

\* Timestamps of the series drawn for the pure-function checks: 0..MaxTime.
MaxTime == 4

\* Longest series drawn for the pure-function checks.
MaxSeriesLen == 3

\* Largest maxGapSize drawn for the pure-function checks: 0..MaxGap.
MaxGap == 2

\* ------------------------------------------------------------------------
\* A local variable: Body applied to the value of e, e evaluated once.
\* ------------------------------------------------------------------------

With(e, Body(_)) == CHOOSE r \in {Body(x) : x \in {e}} : TRUE

\* ------------------------------------------------------------------------
\* double
\* ------------------------------------------------------------------------

Abs(n) == IF n < 0 THEN -n ELSE n

RECURSIVE Gcd(_, _)
Gcd(a, b) == IF b = 0 THEN a ELSE Gcd(b, a % b)

\* A finite double n/d, kept in lowest terms with d > 0.
Num(n, d) ==
    LET g == Gcd(Abs(n), d)
    IN  [k |-> "num", n |-> n \div g, d |-> d \div g]

Int2D(n) == [k |-> "num", n |-> n, d |-> 1]

NaN == [k |-> "nan", n |-> 0, d |-> 1]

\* +Inf (s = 1) and -Inf (s = -1).
Inf(s) == [k |-> "inf", n |-> s, d |-> 1]

\* A finite double the model does not compute exactly (an irrational
\* result); the inputs drawn never produce it (see NoUnmodelled).
Unmodelled == [k |-> "unmodelled", n |-> 0, d |-> 1]

\* M_PI and M_E of <cmath>: finite, irrational.
M_PI == [k |-> "irr", n |-> 1, d |-> 1]
M_E == [k |-> "irr", n |-> 2, d |-> 1]

isnan(x) == x.k = "nan"
isinf(x) == x.k = "inf"
IsNum(x) == x.k = "num"

Sign(x) ==
    IF x.k \in {"num", "inf"}
    THEN (IF x.n > 0 THEN 1 ELSE IF x.n < 0 THEN -1 ELSE 0)
    ELSE 0

\* x == 0.0
DIsZero(x) == x.k = "num" /\ x.n = 0

\* Rational bounds that enclose M_PI and M_E; a rational encloses itself.
Lo(x) ==
    IF x.k = "irr" THEN (IF x.n = 1 THEN Num(3141, 1000) ELSE Num(2718, 1000))
    ELSE x

Hi(x) ==
    IF x.k = "irr" THEN (IF x.n = 1 THEN Num(3142, 1000) ELSE Num(2719, 1000))
    ELSE x

\* x < y of IEEE-754 (false when either is NaN).
DLess(x, y) ==
    IF x.k \in {"nan", "unmodelled"} \/ y.k \in {"nan", "unmodelled"} THEN FALSE
    ELSE IF x.k = "inf" THEN x.n < 0 /\ ~(y.k = "inf" /\ y.n < 0)
    ELSE IF y.k = "inf" THEN y.n > 0
    ELSE IF x = y THEN FALSE
    ELSE Hi(x).n * Lo(y).d <= Lo(y).n * Hi(x).d

DNeg(x) ==
    CASE x.k = "num" -> Num(-x.n, x.d)
      [] x.k = "inf" -> Inf(-x.n)
      [] x.k = "nan" -> NaN
      [] OTHER -> Unmodelled

DAdd(x, y) ==
    IF x.k = "nan" \/ y.k = "nan" THEN NaN
    ELSE IF x.k = "inf" /\ y.k = "inf" THEN (IF x.n = y.n THEN x ELSE NaN)
    ELSE IF x.k = "inf" THEN x
    ELSE IF y.k = "inf" THEN y
    ELSE IF x.k = "num" /\ y.k = "num" THEN Num(x.n * y.d + y.n * x.d, x.d * y.d)
    ELSE IF DIsZero(x) THEN y
    ELSE IF DIsZero(y) THEN x
    ELSE Unmodelled

DSub(x, y) == DAdd(x, DNeg(y))

DMul(x, y) ==
    IF x.k = "nan" \/ y.k = "nan" THEN NaN
    ELSE IF x.k = "inf" \/ y.k = "inf"
         THEN (IF DIsZero(x) \/ DIsZero(y) THEN NaN
               ELSE IF x.k \in {"num", "inf"} /\ y.k \in {"num", "inf"}
                    THEN Inf(Sign(x) * Sign(y))
               ELSE Inf(IF x.k = "inf" THEN x.n ELSE y.n))
    ELSE IF x.k = "num" /\ y.k = "num" THEN Num(x.n * y.n, x.d * y.d)
    ELSE IF DIsZero(x) \/ DIsZero(y) THEN Int2D(0)
    ELSE IF x = Int2D(1) THEN y
    ELSE IF y = Int2D(1) THEN x
    ELSE Unmodelled

\* x / y for y other than 0.0 (the evaluator refuses a zero divisor first).
DDiv(x, y) ==
    IF x.k = "nan" \/ y.k = "nan" THEN NaN
    ELSE IF x.k = "inf" /\ y.k = "inf" THEN NaN
    ELSE IF y.k = "inf" THEN Int2D(0)
    ELSE IF x.k = "inf"
         THEN (IF y.k = "num" THEN Inf(x.n * Sign(y)) ELSE x)
    ELSE IF x.k = "num" /\ y.k = "num" /\ y.n # 0
         THEN Num(x.n * y.d * Sign(y), x.d * Abs(y.n))
    ELSE IF y = Int2D(1) THEN x
    ELSE IF DIsZero(x) THEN Int2D(0)
    ELSE IF x = y THEN Int2D(1)
    ELSE Unmodelled

RECURSIVE IntPow(_, _)
IntPow(b, e) == IF e = 0 THEN 1 ELSE b * IntPow(b, e - 1)

\* pow(x, y) of <cmath>.
DPow(x, y) ==
    IF DIsZero(y) THEN Int2D(1)
    ELSE IF x = Int2D(1) THEN Int2D(1)
    ELSE IF x.k = "nan" \/ y.k = "nan" THEN NaN
    ELSE IF x.k = "num" /\ y.k = "num" /\ y.d = 1
         THEN (IF y.n > 0
               THEN Num(IntPow(x.n, y.n), IntPow(x.d, y.n))
               ELSE IF x.n = 0 THEN Inf(1)
               ELSE Num(IntPow(x.d * Sign(x), -y.n), IntPow(Abs(x.n), -y.n)))
    ELSE IF x.k = "num" /\ y.k = "num"
         THEN (IF x.n < 0 THEN NaN
               ELSE IF x.n = 0 THEN (IF y.n > 0 THEN Int2D(0) ELSE Inf(1))
               ELSE Unmodelled)
    ELSE Unmodelled

\* fabs(x).
DAbs(x) ==
    CASE x.k = "num" -> Num(Abs(x.n), x.d)
      [] x.k = "inf" -> Inf(1)
      [] x.k = "nan" -> NaN
      [] OTHER -> x

IsSquare(n) == \E r \in 0..n : r * r = n
IntSqrt(n) == CHOOSE r \in 0..n : r * r = n

\* sqrt(x) for x that is not < 0.
DSqrt(x) ==
    IF x.k = "nan" THEN NaN
    ELSE IF x.k = "inf" THEN x
    ELSE IF x.k = "num" /\ x.n >= 0 /\ IsSquare(x.n) /\ IsSquare(x.d)
         THEN Num(IntSqrt(x.n), IntSqrt(x.d))
    ELSE Unmodelled

\* log(x) for x that is not <= 0.
DLog(x) ==
    IF x.k = "nan" THEN NaN
    ELSE IF x.k = "inf" THEN x
    ELSE IF x = Int2D(1) THEN Int2D(0)
    ELSE IF x = M_E THEN Int2D(1)
    ELSE Unmodelled

DExp(x) ==
    IF x.k = "nan" THEN NaN
    ELSE IF x.k = "inf" THEN (IF x.n > 0 THEN x ELSE Int2D(0))
    ELSE IF DIsZero(x) THEN Int2D(1)
    ELSE IF x = Int2D(1) THEN M_E
    ELSE Unmodelled

DSin(x) ==
    IF x.k \in {"nan", "inf"} THEN NaN
    ELSE IF DIsZero(x) THEN Int2D(0)
    ELSE Unmodelled

DCos(x) ==
    IF x.k \in {"nan", "inf"} THEN NaN
    ELSE IF DIsZero(x) THEN Int2D(1)
    ELSE Unmodelled

DTan(x) ==
    IF x.k \in {"nan", "inf"} THEN NaN
    ELSE IF DIsZero(x) THEN Int2D(0)
    ELSE Unmodelled

\* ------------------------------------------------------------------------
\* DataSeries: a sequence of samples [t, v], timestamps strictly increasing
\* ------------------------------------------------------------------------

Pt(t, v) == [t |-> t, v |-> v]

size(s) == Len(s)

\* Index idx is 0-based, as in the code.
getTimestamp(s, idx) == s[idx + 1].t

\* Insertion point: the first index whose timestamp is >= t; size() when t
\* exceeds every entry, 0 when t is before every entry.
getIndexForTimestamp(s, t) == Cardinality({j \in 1..Len(s) : s[j].t < t})

\* Linear interpolation between the bracketing samples. Outside the
\* samples the series either has no value (NaN) or holds the nearest
\* sample: mode is the behaviour of the series store, fixed for a system.
getValueAtTime(s, t, mode) ==
    LET idx == getIndexForTimestamp(s, t)
    IN  IF Len(s) = 0 THEN NaN
        ELSE IF idx < Len(s) /\ s[idx + 1].t = t THEN s[idx + 1].v
        ELSE IF idx = 0
             THEN (IF mode = "nan" THEN NaN ELSE s[1].v)
        ELSE IF idx >= Len(s)
             THEN (IF mode = "nan" THEN NaN ELSE s[Len(s)].v)
        ELSE LET p0 == s[idx]
                 p1 == s[idx + 1]
             IN  DAdd(p0.v, DDiv(DMul(DSub(p1.v, p0.v), Int2D(t - p0.t)),
                                 Int2D(p1.t - p0.t)))

\* clearData(false), addData(t, v, false) on the output series.
clearData(s) == << >>
addData(s, t, v) == Append(s, Pt(t, v))

\* ------------------------------------------------------------------------
\* QMap<QString, DataSeriesPointer>: a function from names to series.
\* QMap iterates in key order.
\* ------------------------------------------------------------------------

VarNames == <<"a", "b", "c">>

Keys(m) == SelectSeq(VarNames, LAMBDA v : v \in DOMAIN m)

EmptyMap == [v \in {} |-> << >>]

\* ------------------------------------------------------------------------
\* MathTraceComputer::collectTimestamps
\* ------------------------------------------------------------------------

\* A variant of the insertion that keeps a value already present, as a
\* sorted vector would.
RECURSIVE StdSetInsert_KeepsDuplicates(_, _)
StdSetInsert_KeepsDuplicates(set, x) ==
    IF set = << >> THEN <<x>>
    ELSE IF x <= Head(set) THEN <<x>> \o set
    ELSE <<Head(set)>> \o StdSetInsert_KeepsDuplicates(Tail(set), x)

\* std::set<double>::insert on the set kept as its ascending sequence:
\* a value already present is ignored.
RECURSIVE StdSetInsert(_, _)
StdSetInsert(set, x) ==
    IF set = << >> THEN <<x>>
    ELSE IF Head(set) = x THEN set
    ELSE IF x < Head(set) THEN <<x>> \o set
    ELSE <<Head(set)>> \o StdSetInsert(Tail(set), x)

\* for (uint64_t i = 0; i < s->size(); ++i) timestampSet.insert(...)
RECURSIVE InsertSeriesTimestamps(_, _, _)
InsertSeriesTimestamps(set, s, i) ==
    IF i >= size(s) THEN set
    ELSE InsertSeriesTimestamps(StdSetInsert(set, getTimestamp(s, i)), s, i + 1)

\* for (auto it = series.begin(); it != series.end(); ++it)
RECURSIVE CollectFrom(_, _, _)
CollectFrom(series, keys, set) ==
    IF keys = << >> THEN set
    ELSE CollectFrom(series, Tail(keys),
                     InsertSeriesTimestamps(set, series[Head(keys)], 0))

\* The vector built from the set, in the set's (ascending) order.
collectTimestamps(series) == CollectFrom(series, Keys(series), << >>)

\* ------------------------------------------------------------------------
\* MathTraceComputer::isTimestampValid
\* ------------------------------------------------------------------------

\* A variant of the loop body that rejects a gap equal to maxGapSize.
SeriesGapOk_ClosedGap(timestamp, s, maxGapSize) ==
    LET idx == getIndexForTimestamp(s, timestamp)
    IN  IF idx = 0 \/ idx >= size(s)
        THEN IF idx = 0 /\ size(s) > 0
             THEN ~(Abs(timestamp - getTimestamp(s, 0)) > maxGapSize)
             ELSE IF idx >= size(s) /\ size(s) > 0
                  THEN ~(Abs(timestamp - getTimestamp(s, size(s) - 1)) > maxGapSize)
                  ELSE TRUE
        ELSE LET timeBefore == getTimestamp(s, idx - 1)
                 timeAfter == getTimestamp(s, idx)
                 gapSize == timeAfter - timeBefore
             IN  ~(gapSize >= maxGapSize)

\* A variant of the loop body that accepts every timestamp that is a
\* sample of the series, whatever the gap before it.
SeriesGapOk_SamplesValid(timestamp, s, maxGapSize) ==
    LET idx == getIndexForTimestamp(s, timestamp)
    IN  IF idx < size(s) /\ getTimestamp(s, idx) = timestamp THEN TRUE
        ELSE IF idx = 0 \/ idx >= size(s)
        THEN IF idx = 0 /\ size(s) > 0
             THEN ~(Abs(timestamp - getTimestamp(s, 0)) > maxGapSize)
             ELSE IF idx >= size(s) /\ size(s) > 0
                  THEN ~(Abs(timestamp - getTimestamp(s, size(s) - 1)) > maxGapSize)
                  ELSE TRUE
        ELSE LET timeBefore == getTimestamp(s, idx - 1)
                 timeAfter == getTimestamp(s, idx)
                 gapSize == timeAfter - timeBefore
             IN  ~(gapSize > maxGapSize)

\* One pass of the loop body for series s: FALSE where the code returns
\* false, TRUE where it goes on to the next series.
SeriesGapOk(timestamp, s, maxGapSize) ==
    LET idx == getIndexForTimestamp(s, timestamp)
    IN  IF idx = 0 \/ idx >= size(s)
        THEN IF idx = 0 /\ size(s) > 0
             THEN ~(Abs(timestamp - getTimestamp(s, 0)) > maxGapSize)
             ELSE IF idx >= size(s) /\ size(s) > 0
                  THEN ~(Abs(timestamp - getTimestamp(s, size(s) - 1)) > maxGapSize)
                  ELSE TRUE
        ELSE LET timeBefore == getTimestamp(s, idx - 1)
                 timeAfter == getTimestamp(s, idx)
                 gapSize == timeAfter - timeBefore
             IN  ~(gapSize > maxGapSize)

RECURSIVE ValidFrom(_, _, _, _)
ValidFrom(timestamp, series, keys, maxGapSize) ==
    IF keys = << >> THEN TRUE
    ELSE IF ~SeriesGapOk(timestamp, series[Head(keys)], maxGapSize) THEN FALSE
    ELSE ValidFrom(timestamp, series, Tail(keys), maxGapSize)

\* A variant that stops after the first series of the map.
isTimestampValid_FirstSeriesOnly(timestamp, series, maxGapSize) ==
    IF Keys(series) = << >> THEN TRUE
    ELSE SeriesGapOk(timestamp, series[Head(Keys(series))], maxGapSize)

isTimestampValid(timestamp, series, maxGapSize) ==
    ValidFrom(timestamp, series, Keys(series), maxGapSize)

\* ------------------------------------------------------------------------
\* QString and QChar
\* ------------------------------------------------------------------------

Digits == <<"0", "1", "2", "3", "4", "5", "6", "7", "8", "9">>

isDigit(c) == \E j \in 1..Len(Digits) : Digits[j] = c

DigitValue(c) == (CHOOSE j \in 1..Len(Digits) : Digits[j] = c) - 1

isLetter(c) ==
    c \in {"a", "b", "c", "d", "e", "f", "g", "h", "i", "j", "k", "l", "m",
           "n", "o", "p", "q", "r", "s", "t", "u", "v", "w", "x", "y", "z",
           "A", "B", "C", "D", "E", "F", "G", "H", "I", "J", "K", "L", "M",
           "N", "O", "P", "Q", "R", "S", "T", "U", "V", "W", "X", "Y", "Z"}

isLetterOrNumber(c) == isLetter(c) \/ isDigit(c)

isSpace(c) == c \in {" ", "\t", "\n"}

\* The characters of a sequence as one string.
RECURSIVE Str(_)
Str(chars) == IF chars = << >> THEN "" ELSE Head(chars) \o Str(Tail(chars))

\* expr.mid(start, n), positions 0-based.
mid(expr, start, n) == SubSeq(expr, start + 1, start + n)

RECURSIVE TrimLeft(_)
TrimLeft(expr) ==
    IF expr # << >> /\ isSpace(Head(expr)) THEN TrimLeft(Tail(expr)) ELSE expr

RECURSIVE TrimRight(_)
TrimRight(expr) ==
    IF expr # << >> /\ isSpace(expr[Len(expr)])
    THEN TrimRight(SubSeq(expr, 1, Len(expr) - 1))
    ELSE expr

trimmed(expr) == TrimRight(TrimLeft(expr))

\* The digits of chars read as one decimal integer, the '.' left out.
RECURSIVE DigitsValue(_, _)
DigitsValue(chars, acc) ==
    IF chars = << >> THEN acc
    ELSE IF Head(chars) = "." THEN DigitsValue(Tail(chars), acc)
    ELSE DigitsValue(Tail(chars), 10 * acc + DigitValue(Head(chars)))

\* A variant of the conversion that reads the longest prefix that is a
\* decimal literal, as strtod does.
toDouble_Prefix(chars) ==
    LET dots == {j \in 1..Len(chars) : chars[j] = "."}
        second == {j \in dots : \E k \in dots : k < j}
        prefix == IF second = {} THEN chars
                  ELSE SubSeq(chars, 1,
                              (CHOOSE j \in second : \A k \in second : j <= k) - 1)
        dot == {j \in 1..Len(prefix) : prefix[j] = "."}
    IN  IF Len(prefix) - Cardinality(dot) >= 1
        THEN IF dot = {}
             THEN Int2D(DigitsValue(prefix, 0))
             ELSE Num(DigitsValue(prefix, 0),
                      IntPow(10, Len(prefix) - (CHOOSE j \in dot : TRUE)))
        ELSE Int2D(0)

\* QString::toDouble on a run of digits and '.': the decimal value, and
\* 0.0 when the run is no decimal literal.
toDouble(chars) ==
    LET dots == {j \in 1..Len(chars) : chars[j] = "."}
        nDigits == Len(chars) - Cardinality(dots)
    IN  IF Cardinality(dots) <= 1 /\ nDigits >= 1
        THEN IF dots = {}
             THEN Int2D(DigitsValue(chars, 0))
             ELSE LET dot == CHOOSE j \in dots : TRUE
                  IN  Num(DigitsValue(chars, 0), IntPow(10, Len(chars) - dot))
        ELSE Int2D(0)

\* A QString built with arg(): the format and its arguments.
Msg(fmt, args) == [fmt |-> fmt, args |-> args]

\* The empty QString.
NoMsg == Msg("", << >>)

\* ------------------------------------------------------------------------
\* MathExpressionParser::tokenize
\* ------------------------------------------------------------------------

Token(type, value, numberValue) ==
    [type |-> type, value |-> value, numberValue |-> numberValue]

isOperator(c) == c \in {"+", "-", "*", "/", "^"}

FunctionNames == {"abs", "sqrt", "log", "exp", "sin", "cos", "tan"}

\* while (i < expr.length() && (expr[i].isDigit() || expr[i] == '.')) i++
RECURSIVE NumberEnd(_, _)
NumberEnd(expr, i) ==
    IF i < Len(expr) /\ (isDigit(expr[i + 1]) \/ expr[i + 1] = ".")
    THEN NumberEnd(expr, i + 1)
    ELSE i

\* while (i < expr.length() && (expr[i].isLetterOrNumber() || expr[i] == '_'))
RECURSIVE IdentEnd(_, _)
IdentEnd(expr, i) ==
    IF i < Len(expr) /\ (isLetterOrNumber(expr[i + 1]) \/ expr[i + 1] = "_")
    THEN IdentEnd(expr, i + 1)
    ELSE i

IdentToken(value) ==
    IF value \in FunctionNames THEN Token("TOKEN_FUNCTION", value, Int2D(0))
    ELSE IF value = "pi" THEN Token("TOKEN_NUMBER", value, M_PI)
    ELSE IF value = "e" THEN Token("TOKEN_NUMBER", value, M_E)
    ELSE Token("TOKEN_VARIABLE", value, Int2D(0))

\* The scanning loop from position i (0-based) with the tokens so far.
\* Returns the token list and the error message it set.
RECURSIVE TokenizeFrom(_, _, _)
TokenizeFrom(expr, i, tokens) ==
    IF ~(i < Len(expr))
    THEN [tokens |-> Append(tokens, Token("TOKEN_END", "", Int2D(0))),
          errorMessage |-> NoMsg]
    ELSE With(expr[i + 1], LAMBDA c :
             IF isSpace(c) THEN TokenizeFrom(expr, i + 1, tokens)
             ELSE IF isDigit(c) \/ c = "."
                  THEN With(NumberEnd(expr, i), LAMBDA e :
                       With(mid(expr, i, e - i), LAMBDA text :
                           TokenizeFrom(expr, e,
                               Append(tokens,
                                      Token("TOKEN_NUMBER", Str(text), toDouble(text))))))
             ELSE IF isLetter(c)
                  THEN With(IdentEnd(expr, i), LAMBDA e :
                           TokenizeFrom(expr, e,
                               Append(tokens, IdentToken(Str(mid(expr, i, e - i))))))
             ELSE IF isOperator(c)
                  THEN TokenizeFrom(expr, i + 1,
                           Append(tokens, Token("TOKEN_OPERATOR", c, Int2D(0))))
             ELSE IF c = "("
                  THEN TokenizeFrom(expr, i + 1,
                           Append(tokens, Token("TOKEN_LEFT_PAREN", c, Int2D(0))))
             ELSE IF c = ")"
                  THEN TokenizeFrom(expr, i + 1,
                           Append(tokens, Token("TOKEN_RIGHT_PAREN", c, Int2D(0))))
             ELSE IF c = ","
                  THEN TokenizeFrom(expr, i + 1,
                           Append(tokens, Token("TOKEN_COMMA", c, Int2D(0))))
             ELSE [tokens |-> << >>,
                   errorMessage |-> Msg("Invalid character at position %1: %2",
                                        <<ToString(i), c>>)])

tokenize(expression) ==
    With(trimmed(expression), LAMBDA expr : TokenizeFrom(expr, 0, << >>))

\* ------------------------------------------------------------------------
\* MathExpressionParser: the expression tree and the recursive descent
\* ------------------------------------------------------------------------

\* A null NodePtr.
NullNode == [type |-> "null"]

NumberNode(v) == [type |-> "NODE_NUMBER", numberValue |-> v]

VariableNode(name) == [type |-> "NODE_VARIABLE", variableName |-> name]

OperatorNode(op, l, r) ==
    [type |-> "NODE_OPERATOR", operatorType |-> op, left |-> l, right |-> r]

FunctionNode(f, arg) ==
    [type |-> "NODE_FUNCTION", functionType |-> f, argument |-> arg]

\* node->left, node->right, node->argument (null where never set).
LeftOf(node) == IF node.type = "NODE_OPERATOR" THEN node.left ELSE NullNode
RightOf(node) == IF node.type = "NODE_OPERATOR" THEN node.right ELSE NullNode
ArgumentOf(node) == IF node.type = "NODE_FUNCTION" THEN node.argument ELSE NullNode

\* What a parse function hands back: the node and the advanced position,
\* or the QString it threw.
Parsed(node, pos) == [ok |-> TRUE, node |-> node, pos |-> pos, error |-> NoMsg]
Thrown(error) == [ok |-> FALSE, node |-> NullNode, pos |-> 0, error |-> error]

\* tokens[pos], pos 0-based.
At(tokens, pos) == tokens[pos + 1]

IsOp(tokens, pos, ops) ==
    /\ pos < Len(tokens)
    /\ At(tokens, pos).type = "TOKEN_OPERATOR"
    /\ At(tokens, pos).value \in ops

FunctionType(funcName) ==
    CASE funcName = "abs" -> "FUNC_ABS"
      [] funcName = "sqrt" -> "FUNC_SQRT"
      [] funcName = "log" -> "FUNC_LOG"
      [] funcName = "exp" -> "FUNC_EXP"
      [] funcName = "sin" -> "FUNC_SIN"
      [] funcName = "cos" -> "FUNC_COS"
      [] funcName = "tan" -> "FUNC_TAN"
      [] OTHER -> "unknown"

RECURSIVE parseExpression(_, _)
RECURSIVE ExpressionLoop(_, _, _)
RECURSIVE parseTerm(_, _)
RECURSIVE TermLoop(_, _, _)
RECURSIVE parsePower(_, _)
RECURSIVE parseUnary(_, _)
RECURSIVE parsePrimary(_, _)

\* A variant of the loop of parseExpression that takes everything after
\* the operator as the right operand.
ExpressionLoop_RightOperandExpression(tokens, pos, left) ==
    IF IsOp(tokens, pos, {"+", "-"})
    THEN With(parseExpression(tokens, pos + 1), LAMBDA right :
             IF ~right.ok THEN right
             ELSE Parsed(OperatorNode(IF At(tokens, pos).value = "+"
                                      THEN "OP_ADD" ELSE "OP_SUBTRACT",
                                      left, right.node),
                         right.pos))
    ELSE Parsed(left, pos)

\* The while loop of parseExpression, left being the tree so far.
ExpressionLoop(tokens, pos, left) ==
    IF IsOp(tokens, pos, {"+", "-"})
    THEN With(parseTerm(tokens, pos + 1), LAMBDA right :
             IF ~right.ok THEN right
             ELSE ExpressionLoop(tokens, right.pos,
                      OperatorNode(IF At(tokens, pos).value = "+"
                                   THEN "OP_ADD" ELSE "OP_SUBTRACT",
                                   left, right.node)))
    ELSE Parsed(left, pos)

parseExpression(tokens, pos) ==
    With(parseTerm(tokens, pos), LAMBDA left :
        IF ~left.ok THEN left ELSE ExpressionLoop(tokens, left.pos, left.node))

\* The while loop of parseTerm.
TermLoop(tokens, pos, left) ==
    IF IsOp(tokens, pos, {"*", "/"})
    THEN With(parsePower(tokens, pos + 1), LAMBDA right :
             IF ~right.ok THEN right
             ELSE TermLoop(tokens, right.pos,
                      OperatorNode(IF At(tokens, pos).value = "*"
                                   THEN "OP_MULTIPLY" ELSE "OP_DIVIDE",
                                   left, right.node)))
    ELSE Parsed(left, pos)

parseTerm(tokens, pos) ==
    With(parsePower(tokens, pos), LAMBDA left :
        IF ~left.ok THEN left ELSE TermLoop(tokens, left.pos, left.node))

parsePower(tokens, pos) ==
    With(parseUnary(tokens, pos), LAMBDA left :
        IF ~left.ok THEN left
        ELSE IF IsOp(tokens, left.pos, {"^"})
             THEN With(parsePower(tokens, left.pos + 1), LAMBDA right :
                      IF ~right.ok THEN right
                      ELSE Parsed(OperatorNode("OP_POWER", left.node, right.node),
                                  right.pos))
        ELSE left)

parseUnary(tokens, pos) ==
    IF IsOp(tokens, pos, {"-"})
    THEN With(parseUnary(tokens, pos + 1), LAMBDA operand :
             IF ~operand.ok THEN operand
             ELSE Parsed(OperatorNode("OP_NEGATE", operand.node, NullNode),
                         operand.pos))
    ELSE parsePrimary(tokens, pos)

parsePrimary(tokens, pos) ==
    IF pos >= Len(tokens)
    THEN Thrown(Msg("Unexpected end of expression", << >>))
    ELSE With(At(tokens, pos), LAMBDA token :
             IF token.type = "TOKEN_NUMBER"
             THEN Parsed(NumberNode(token.numberValue), pos + 1)
             ELSE IF token.type = "TOKEN_VARIABLE"
             THEN Parsed(VariableNode(token.value), pos + 1)
             ELSE IF token.type = "TOKEN_FUNCTION"
             THEN IF pos + 1 >= Len(tokens)
                     \/ At(tokens, pos + 1).type # "TOKEN_LEFT_PAREN"
                  THEN Thrown(Msg("Expected '(' after function name", << >>))
                  ELSE With(parseExpression(tokens, pos + 2), LAMBDA argument :
                           IF ~argument.ok THEN argument
                           ELSE IF argument.pos >= Len(tokens)
                                   \/ At(tokens, argument.pos).type # "TOKEN_RIGHT_PAREN"
                           THEN Thrown(Msg("Expected ')' after function argument", << >>))
                           ELSE IF FunctionType(token.value) = "unknown"
                           THEN Thrown(Msg("Unknown function: %1", <<token.value>>))
                           ELSE Parsed(FunctionNode(FunctionType(token.value),
                                                    argument.node),
                                       argument.pos + 1))
             ELSE IF token.type = "TOKEN_LEFT_PAREN"
             THEN With(parseExpression(tokens, pos + 1), LAMBDA node :
                      IF ~node.ok THEN node
                      ELSE IF node.pos >= Len(tokens)
                              \/ At(tokens, node.pos).type # "TOKEN_RIGHT_PAREN"
                      THEN Thrown(Msg("Expected ')'", << >>))
                      ELSE Parsed(node.node, node.pos + 1))
             ELSE Thrown(Msg("Unexpected token: %1", <<token.value>>)))

\* MathExpressionParser::parse: the parser's state (rootNode,
\* errorMessage) after the call, and what the call returned.
parse(expression) ==
    IF trimmed(expression) = << >>
    THEN [rootNode |-> NullNode, errorMessage |-> Msg("Empty expression", << >>),
          result |-> FALSE]
    ELSE With(tokenize(expression), LAMBDA t :
             IF t.errorMessage # NoMsg
             THEN [rootNode |-> NullNode, errorMessage |-> t.errorMessage,
                   result |-> FALSE]
             ELSE With(parseExpression(t.tokens, 0), LAMBDA r :
                      IF ~r.ok
                      THEN [rootNode |-> NullNode, errorMessage |-> r.error,
                            result |-> FALSE]
                      ELSE IF r.pos < Len(t.tokens)
                              /\ At(t.tokens, r.pos).type # "TOKEN_END"
                      THEN [rootNode |-> r.node,
                            errorMessage |->
                                Msg("Unexpected token at position %1: %2",
                                    <<ToString(r.pos), At(t.tokens, r.pos).value>>),
                            result |-> FALSE]
                      ELSE [rootNode |-> r.node, errorMessage |-> NoMsg,
                            result |-> r.node # NullNode]))

\* ------------------------------------------------------------------------
\* MathExpressionParser::evaluate, getVariables
\* ------------------------------------------------------------------------

Value(v) == [ok |-> TRUE, result |-> v]
Failure == [ok |-> FALSE, result |-> Int2D(0)]

\* A variant of the operator switch without the test of line 503.
BinaryResult_NoZeroTest(operatorType, leftVal, rightVal) ==
    CASE operatorType = "OP_ADD" -> Value(DAdd(leftVal, rightVal))
      [] operatorType = "OP_SUBTRACT" -> Value(DSub(leftVal, rightVal))
      [] operatorType = "OP_MULTIPLY" -> Value(DMul(leftVal, rightVal))
      [] operatorType = "OP_DIVIDE" -> Value(DDiv(leftVal, rightVal))
      [] operatorType = "OP_POWER" -> Value(DPow(leftVal, rightVal))
      [] OTHER -> Failure

BinaryResult(operatorType, leftVal, rightVal) ==
    CASE operatorType = "OP_ADD" -> Value(DAdd(leftVal, rightVal))
      [] operatorType = "OP_SUBTRACT" -> Value(DSub(leftVal, rightVal))
      [] operatorType = "OP_MULTIPLY" -> Value(DMul(leftVal, rightVal))
      [] operatorType = "OP_DIVIDE" ->
             IF DIsZero(rightVal) THEN Failure
             ELSE Value(DDiv(leftVal, rightVal))
      [] operatorType = "OP_POWER" -> Value(DPow(leftVal, rightVal))
      [] OTHER -> Failure

FunctionResult(functionType, argVal) ==
    CASE functionType = "FUNC_ABS" -> Value(DAbs(argVal))
      [] functionType = "FUNC_SQRT" ->
             IF DLess(argVal, Int2D(0)) THEN Failure
             ELSE Value(DSqrt(argVal))
      [] functionType = "FUNC_LOG" ->
             IF DLess(argVal, Int2D(0)) \/ DIsZero(argVal) THEN Failure
             ELSE Value(DLog(argVal))
      [] functionType = "FUNC_EXP" -> Value(DExp(argVal))
      [] functionType = "FUNC_SIN" -> Value(DSin(argVal))
      [] functionType = "FUNC_COS" -> Value(DCos(argVal))
      [] functionType = "FUNC_TAN" -> Value(DTan(argVal))
      [] OTHER -> Failure

RECURSIVE evaluateNode(_, _)
evaluateNode(node, variables) ==
    IF node = NullNode THEN Failure
    ELSE IF node.type = "NODE_NUMBER" THEN Value(node.numberValue)
    ELSE IF node.type = "NODE_VARIABLE"
    THEN IF node.variableName \notin DOMAIN variables THEN Failure
         ELSE Value(variables[node.variableName])
    ELSE IF node.type = "NODE_OPERATOR"
    THEN With(evaluateNode(node.left, variables), LAMBDA l :
             IF node.operatorType = "OP_NEGATE"
             THEN IF ~l.ok THEN Failure ELSE Value(DNeg(l.result))
             ELSE IF ~l.ok THEN Failure
                  ELSE With(evaluateNode(node.right, variables), LAMBDA r :
                           IF ~r.ok THEN Failure
                           ELSE BinaryResult(node.operatorType, l.result, r.result)))
    ELSE IF node.type = "NODE_FUNCTION"
    THEN With(evaluateNode(node.argument, variables), LAMBDA a :
             IF ~a.ok THEN Failure
             ELSE FunctionResult(node.functionType, a.result))
    ELSE Failure

\* evaluate on a parser whose tree is rootNode.
evaluate(rootNode, variables) ==
    IF rootNode = NullNode THEN Failure ELSE evaluateNode(rootNode, variables)

Contains(list, x) == \E j \in 1..Len(list) : list[j] = x

\* A variant of collectVariables that visits the right child before the
\* left one.
RECURSIVE collectVariables_RightFirst(_, _)
collectVariables_RightFirst(node, variables) ==
    IF node = NullNode THEN variables
    ELSE With(IF node.type = "NODE_VARIABLE"
                 /\ ~Contains(variables, node.variableName)
              THEN Append(variables, node.variableName)
              ELSE variables, LAMBDA own :
         With(collectVariables_RightFirst(RightOf(node), own), LAMBDA afterRight :
         With(collectVariables_RightFirst(LeftOf(node), afterRight), LAMBDA afterLeft :
              collectVariables_RightFirst(ArgumentOf(node), afterLeft))))

\* collectVariables: the list after visiting node, then its left, right
\* and argument children.
RECURSIVE collectVariables(_, _)
collectVariables(node, variables) ==
    IF node = NullNode THEN variables
    ELSE With(IF node.type = "NODE_VARIABLE"
                 /\ ~Contains(variables, node.variableName)
              THEN Append(variables, node.variableName)
              ELSE variables, LAMBDA own :
         With(collectVariables(LeftOf(node), own), LAMBDA afterLeft :
         With(collectVariables(RightOf(node), afterLeft), LAMBDA afterRight :
              collectVariables(ArgumentOf(node), afterRight))))

getVariables(rootNode) ==
    IF rootNode # NullNode THEN collectVariables(rootNode, << >>) ELSE << >>

\* ------------------------------------------------------------------------
\* State
\* ------------------------------------------------------------------------

VARIABLES
    \* MathTraceComputer members
    currentExpression,        \* QString, as its characters
    currentVariableMapping,   \* QMap<QString, DataSeriesPointer>
    currentOutputSeries,      \* the series the pointer names: [data, updates]
    currentMaxGapSize,
    cancelRequested,
    \* the worker inside startComputation
    pc,                       \* "idle", "ready", "loop", "body", "done"
    returnedAt,               \* source line of the return taken, 0 before
    rootNode,                 \* parser.rootNode
    requiredVars,
    timestamps,
    i,
    lastProgress,
    validPoints,
    skippedPoints,
    \* the signals emitted since the last compute(), in order
    emitted,
    \* how the series store answers getValueAtTime outside the samples
    boundaryMode,
    \* history: what happened to each union timestamp processed so far
    pointLog,
    \* history: the loop position at the first in-loop cancelComputation()
    cancelPoint,
    \* QMutex computeMutex: the thread that holds it, or "free"
    computeMutex,
    \* the controller thread inside compute() or cancelComputation(): the
    \* line it is at (0 outside) and the arguments of the call
    controller,
    \* MathDataSource: the math series it holds, each [label, id]
    mathSource,
    \* MathTraceDialog: its members and the signals it has handled
    dialog,
    \* arguments and result of a direct call of a helper function
    fnArgs,
    fnResult

requestVars ==
    <<currentExpression, currentVariableMapping, currentMaxGapSize>>

workerVars ==
    <<pc, returnedAt, rootNode, requiredVars, timestamps, i, lastProgress,
      validPoints, skippedPoints, emitted, pointLog>>

fnVars == <<fnArgs, fnResult>>

lockVars == <<computeMutex, controller>>

dialogVars == <<mathSource, dialog>>

vars ==
    <<currentExpression, currentVariableMapping, currentOutputSeries,
      currentMaxGapSize, cancelRequested, pc, returnedAt, rootNode,
      requiredVars, timestamps, i, lastProgress, validPoints, skippedPoints,
      emitted, boundaryMode, pointLog, cancelPoint, computeMutex, controller,
      mathSource, dialog, fnArgs, fnResult>>

\* ------------------------------------------------------------------------
\* Signals
\* ------------------------------------------------------------------------

Signal(name, progress, error) ==
    [signal |-> name, progress |-> progress, error |-> error]

computationStarted == Signal("computationStarted", -1, NoMsg)
progressUpdated(progress) == Signal("progressUpdated", progress, NoMsg)
computationComplete == Signal("computationComplete", -1, NoMsg)
computationFailed(error) == Signal("computationFailed", -1, error)

\* ------------------------------------------------------------------------
\* Requests the controller issues
\* ------------------------------------------------------------------------

SerRamp == <<Pt(0, Int2D(1)), Pt(1, Int2D(0)), Pt(2, Int2D(2))>>
SerNegOne == <<Pt(1, Int2D(-1)), Pt(3, Int2D(1))>>
SerZero == <<Pt(0, Int2D(0)), Pt(2, Int2D(0))>>
SerNaN == <<Pt(0, NaN), Pt(2, Int2D(1))>>
SerGap == <<Pt(0, Int2D(1)), Pt(5, Int2D(1))>>
SerLate == <<Pt(0, Int2D(1)), Pt(1, Int2D(1)), Pt(4, Int2D(1))>>
SerWide == <<Pt(0, Int2D(1)), Pt(2000, Int2D(1))>>
SerEmpty == << >>

Bind1(n1, s1) == [v \in {n1} |-> s1]
Bind2(n1, s1, n2, s2) == [v \in {n1, n2} |-> IF v = n1 THEN s1 ELSE s2]

Mappings ==
    { EmptyMap,
      Bind1("a", SerRamp),
      Bind1("a", SerLate),
      Bind1("a", SerWide),
      Bind1("a", SerEmpty),
      Bind1("c", SerEmpty),
      Bind2("a", SerRamp, "b", SerRamp),
      Bind2("a", SerRamp, "b", SerNegOne),
      Bind2("a", SerRamp, "b", SerZero),
      Bind2("a", SerNaN, "b", SerRamp),
      Bind2("a", SerRamp, "b", SerEmpty),
      Bind2("a", SerRamp, "c", SerGap),
      Bind2("a", SerRamp, "c", SerEmpty) }

Expressions ==
    { <<"a">>,
      <<"a", "/", "b">>,
      <<"a", "^", "b">>,
      <<"a", " ", "+">>,
      <<"2">> }

\* maxGapSize: tight enough to open gaps in the series above, and the
\* default of compute().
DefaultMaxGapSize == 1000
GapSizes == {2, DefaultMaxGapSize}

\* What the output series holds when it is handed to compute().
OutputContents == {<< >>, <<Pt(7, Int2D(9))>>}

Series(data) == [data |-> data, updates |-> 0]

NoCancelPoint == [set |-> FALSE, i |-> 0, validPoints |-> 0]

\* The controller thread is in neither function.
Outside == [at |-> 0]

\* No dialog is open.
NoDialog == [alive |-> FALSE]

NoCall == [called |-> "none", timestamps |-> << >>, valid |-> FALSE]
NoArgs == [series |-> EmptyMap, timestamp |-> 0, maxGapSize |-> 0]

\* ------------------------------------------------------------------------
\* Init: the state after MathTraceComputer()
\* ------------------------------------------------------------------------

WorkerInit ==
    /\ pc = "idle"
    /\ returnedAt = 0
    /\ rootNode = NullNode
    /\ requiredVars = << >>
    /\ timestamps = << >>
    /\ i = 0
    /\ lastProgress = -1
    /\ validPoints = 0
    /\ skippedPoints = 0
    /\ emitted = << >>
    /\ pointLog = << >>

ComputerInit ==
    /\ currentExpression = << >>
    /\ currentVariableMapping = EmptyMap
    /\ currentOutputSeries = Series(<< >>)
    /\ currentMaxGapSize \in GapSizes   \* the constructor leaves it unset
    /\ cancelRequested = FALSE
    /\ cancelPoint = NoCancelPoint
    /\ computeMutex = "free"
    /\ controller = Outside
    /\ WorkerInit

NoDialogOpen ==
    /\ mathSource = {}
    /\ dialog = NoDialog

Init ==
    /\ ComputerInit
    /\ NoDialogOpen
    /\ boundaryMode \in {"nan", "clamp"}
    /\ fnArgs = NoArgs
    /\ fnResult = NoCall

\* ------------------------------------------------------------------------
\* MathTraceComputer::compute
\* ------------------------------------------------------------------------

\* Called by the controller while no run is in progress (spec.md 4.2:
\* Idle/terminal -> Preparing). The worker's locals and the history start
\* afresh with the request.
compute(expression, variableMapping, outputSeries, maxGapSize) ==
    /\ pc \in {"idle", "ready", "done"}
    /\ currentExpression' = expression
    /\ currentVariableMapping' = variableMapping
    /\ currentOutputSeries' = outputSeries
    /\ currentMaxGapSize' = maxGapSize
    /\ cancelRequested' = FALSE
    /\ pc' = "ready"
    /\ returnedAt' = 0
    /\ rootNode' = NullNode
    /\ requiredVars' = << >>
    /\ timestamps' = << >>
    /\ i' = 0
    /\ lastProgress' = -1
    /\ validPoints' = 0
    /\ skippedPoints' = 0
    /\ emitted' = << >>
    /\ pointLog' = << >>
    /\ cancelPoint' = NoCancelPoint
    /\ UNCHANGED <<boundaryMode, lockVars, fnVars>>

Compute ==
    /\ \E expression \in Expressions, variableMapping \in Mappings,
          data \in OutputContents, maxGapSize \in GapSizes :
           compute(expression, variableMapping, Series(data), maxGapSize)
    /\ UNCHANGED dialogVars

\* ------------------------------------------------------------------------
\* MathTraceComputer::cancelComputation
\* ------------------------------------------------------------------------

\* The worker is in the loop and has a cancellation check still ahead of
\* it for a timestamp of the union.
CheckAhead ==
    \/ pc = "loop" /\ i < Len(timestamps)
    \/ pc = "body" /\ i + 1 < Len(timestamps)

cancelComputation ==
    /\ cancelRequested' = TRUE
    /\ cancelPoint' = IF ~cancelPoint.set /\ CheckAhead
                      THEN [set |-> TRUE, i |-> i, validPoints |-> validPoints]
                      ELSE cancelPoint
    /\ UNCHANGED <<requestVars, currentOutputSeries, workerVars, boundaryMode, dialogVars, lockVars,
                   fnVars>>

\* ------------------------------------------------------------------------
\* MathTraceComputer::startComputation
\* ------------------------------------------------------------------------

\* The first variable of the list that is in the set, or "" if none.
RECURSIVE FirstIn(_, _)
FirstIn(list, set) ==
    IF list = << >> THEN ""
    ELSE IF Head(list) \in set THEN Head(list)
    ELSE FirstIn(Tail(list), set)

Range(list) == {list[j] : j \in 1..Len(list)}

\* Lines 59-103: everything up to the loop. The record says where the
\* function is after them: in the loop, or returned with the signals
\* emitted.
Prologue(expression, variableMapping) ==
    With(parse(expression), LAMBDA parser :
    With(getVariables(parser.rootNode), LAMBDA required :
        LET missing == FirstIn(required, Range(required) \ DOMAIN variableMapping)
            empty == FirstIn(required, {v \in DOMAIN variableMapping :
                                           size(variableMapping[v]) = 0})
            Fail(line, list, error) ==
                [returned |-> line, rootNode |-> parser.rootNode,
                 requiredVars |-> list, timestamps |-> << >>,
                 signals |-> <<computationStarted, computationFailed(error)>>]
        IN  IF ~parser.result
            THEN Fail(66, << >>,
                      Msg("Failed to parse expression: %1",
                          <<parser.errorMessage.fmt>> \o parser.errorMessage.args))
            ELSE IF missing # ""
            THEN Fail(76, required,
                      Msg("Variable '%1' not found in mapping", <<missing>>))
            ELSE IF empty # ""
            THEN Fail(86, required,
                      Msg("Input series for variable '%1' is empty", <<empty>>))
            ELSE With(collectTimestamps(variableMapping), LAMBDA ts :
                     IF ts = << >>
                     THEN Fail(97, required,
                               Msg("No timestamps found in input series", << >>))
                     ELSE [returned |-> 0, rootNode |-> parser.rootNode,
                           requiredVars |-> required, timestamps |-> ts,
                           signals |-> <<computationStarted>>])))

\* A variant of the entry that clears the output series before the
\* validations instead of after them.
StartComputation_ClearsFirst ==
    /\ pc \in {"idle", "ready"}
    /\ \E p \in {Prologue(currentExpression, currentVariableMapping)} :
           /\ rootNode' = p.rootNode
           /\ requiredVars' = p.requiredVars
           /\ timestamps' = p.timestamps
           /\ emitted' = emitted \o p.signals
           /\ returnedAt' = p.returned
           /\ pc' = IF p.returned # 0 THEN "done" ELSE "loop"
           /\ currentOutputSeries' =
                  [currentOutputSeries EXCEPT !.data = clearData(@)]
    /\ i' = 0
    /\ lastProgress' = -1
    /\ validPoints' = 0
    /\ skippedPoints' = 0
    /\ UNCHANGED <<requestVars, cancelRequested, boundaryMode, dialogVars, lockVars, pointLog,
                   cancelPoint, fnVars>>

\* A variant of the entry without the clearData of line 103.
StartComputation_KeepsOutput ==
    /\ pc \in {"idle", "ready"}
    /\ \E p \in {Prologue(currentExpression, currentVariableMapping)} :
           /\ rootNode' = p.rootNode
           /\ requiredVars' = p.requiredVars
           /\ timestamps' = p.timestamps
           /\ emitted' = emitted \o p.signals
           /\ returnedAt' = p.returned
           /\ pc' = IF p.returned # 0 THEN "done" ELSE "loop"
    /\ i' = 0
    /\ lastProgress' = -1
    /\ validPoints' = 0
    /\ skippedPoints' = 0
    /\ UNCHANGED <<requestVars, currentOutputSeries, cancelRequested,
                   boundaryMode, dialogVars, lockVars, pointLog, cancelPoint, fnVars>>

\* A variant of the entry that clears the cancellation flag when the run
\* starts.
StartComputation_ResetsFlag ==
    /\ pc \in {"idle", "ready"}
    /\ \E p \in {Prologue(currentExpression, currentVariableMapping)} :
           /\ rootNode' = p.rootNode
           /\ requiredVars' = p.requiredVars
           /\ timestamps' = p.timestamps
           /\ emitted' = emitted \o p.signals
           /\ returnedAt' = p.returned
           /\ IF p.returned # 0
              THEN /\ pc' = "done"
                   /\ UNCHANGED currentOutputSeries
              ELSE /\ pc' = "loop"
                   /\ currentOutputSeries' =
                          [currentOutputSeries EXCEPT !.data = clearData(@)]
    /\ cancelRequested' = FALSE
    /\ i' = 0
    /\ lastProgress' = -1
    /\ validPoints' = 0
    /\ skippedPoints' = 0
    /\ UNCHANGED <<requestVars, boundaryMode, dialogVars, lockVars, pointLog,
                   cancelPoint, fnVars>>

StartComputation ==
    /\ pc \in {"idle", "ready"}
    /\ \E p \in {Prologue(currentExpression, currentVariableMapping)} :
           /\ rootNode' = p.rootNode
           /\ requiredVars' = p.requiredVars
           /\ timestamps' = p.timestamps
           /\ emitted' = emitted \o p.signals
           /\ returnedAt' = p.returned
           /\ IF p.returned # 0
              THEN /\ pc' = "done"
                   /\ UNCHANGED currentOutputSeries
              ELSE /\ pc' = "loop"
                   /\ currentOutputSeries' =
                          [currentOutputSeries EXCEPT !.data = clearData(@)]
    /\ i' = 0
    /\ lastProgress' = -1
    /\ validPoints' = 0
    /\ skippedPoints' = 0
    /\ UNCHANGED <<requestVars, cancelRequested, boundaryMode, dialogVars, lockVars, pointLog,
                   cancelPoint, fnVars>>

\* Variants of the cancellation check that differ from the code in one
\* respect each; the properties of a cancelled run tell them from it.

\* Reports a cancelled run with the reason of another failure path.
CheckCancel_OtherReason ==
    /\ pc = "loop"
    /\ i < Len(timestamps)
    /\ IF cancelRequested
       THEN /\ emitted' = Append(emitted, computationFailed(
                              Msg("No timestamps found in input series", << >>)))
            /\ pc' = "done"
            /\ returnedAt' = 116
       ELSE /\ pc' = "body"
            /\ UNCHANGED <<emitted, returnedAt>>
    /\ UNCHANGED <<requestVars, currentOutputSeries, cancelRequested, rootNode,
                   requiredVars, timestamps, i, lastProgress, validPoints,
                   skippedPoints, boundaryMode, dialogVars, lockVars, pointLog, cancelPoint, fnVars>>

\* Reads the flag on every other iteration only.
CheckCancel_EveryOtherIteration ==
    /\ pc = "loop"
    /\ i < Len(timestamps)
    /\ IF cancelRequested /\ i % 2 = 0
       THEN /\ emitted' = Append(emitted,
                              computationFailed(Msg("Computation cancelled", << >>)))
            /\ pc' = "done"
            /\ returnedAt' = 116
       ELSE /\ pc' = "body"
            /\ UNCHANGED <<emitted, returnedAt>>
    /\ UNCHANGED <<requestVars, currentOutputSeries, cancelRequested, rootNode,
                   requiredVars, timestamps, i, lastProgress, validPoints,
                   skippedPoints, boundaryMode, dialogVars, lockVars, pointLog, cancelPoint, fnVars>>

\* Clears the output series when it stops the run.
CheckCancel_RollsBack ==
    /\ pc = "loop"
    /\ i < Len(timestamps)
    /\ IF cancelRequested
       THEN /\ emitted' = Append(emitted,
                              computationFailed(Msg("Computation cancelled", << >>)))
            /\ pc' = "done"
            /\ returnedAt' = 116
            /\ currentOutputSeries' =
                   [currentOutputSeries EXCEPT !.data = clearData(@)]
       ELSE /\ pc' = "body"
            /\ UNCHANGED <<emitted, returnedAt, currentOutputSeries>>
    /\ UNCHANGED <<requestVars, cancelRequested, rootNode,
                   requiredVars, timestamps, i, lastProgress, validPoints,
                   skippedPoints, boundaryMode, dialogVars, lockVars, pointLog, cancelPoint, fnVars>>

\* Lines 110-117: the loop condition held; the cancellation check.
CheckCancel ==
    /\ pc = "loop"
    /\ i < Len(timestamps)
    /\ IF cancelRequested
       THEN /\ emitted' = Append(emitted,
                              computationFailed(Msg("Computation cancelled", << >>)))
            /\ pc' = "done"
            /\ returnedAt' = 116
       ELSE /\ pc' = "body"
            /\ UNCHANGED <<emitted, returnedAt>>
    /\ UNCHANGED <<requestVars, currentOutputSeries, cancelRequested, rootNode,
                   requiredVars, timestamps, i, lastProgress, validPoints,
                   skippedPoints, boundaryMode, dialogVars, lockVars, pointLog, cancelPoint, fnVars>>

\* Lines 128-145: the interpolated value of each required variable, up to
\* the first NaN or Inf.
RECURSIVE Interpolate(_, _, _, _, _)
Interpolate(list, variableMapping, timestamp, mode, variableValues) ==
    IF list = << >> THEN [allValid |-> TRUE, variableValues |-> variableValues]
    ELSE LET var == Head(list)
             value == getValueAtTime(variableMapping[var], timestamp, mode)
         IN  IF isnan(value) \/ isinf(value)
             THEN [allValid |-> FALSE, variableValues |-> variableValues]
             ELSE Interpolate(Tail(list), variableMapping, timestamp, mode,
                      [v \in DOMAIN variableValues \cup {var} |->
                          IF v = var THEN value ELSE variableValues[v]])

NoValues == [v \in {} |-> Int2D(0)]

\* A variant of the body without the test of line 162: a NaN or infinite
\* result is written like any other.
ProcessPoint_WritesNonFinite(timestamp, root, list, variableMapping, maxGapSize, mode) ==
    IF ~isTimestampValid(timestamp, variableMapping, maxGapSize)
    THEN [outcome |-> "gap", result |-> Int2D(0)]
    ELSE With(Interpolate(list, variableMapping, timestamp, mode, NoValues),
              LAMBDA in :
             IF ~in.allValid
             THEN [outcome |-> "input", result |-> Int2D(0)]
             ELSE With(evaluate(root, in.variableValues), LAMBDA ev :
                      IF ~ev.ok
                      THEN [outcome |-> "evaluation", result |-> Int2D(0)]
                      ELSE [outcome |-> "written", result |-> ev.result]))

\* Lines 119-166 for one timestamp: "written" with the result, or why the
\* point is skipped.
ProcessPoint(timestamp, root, list, variableMapping, maxGapSize, mode) ==
    IF ~isTimestampValid(timestamp, variableMapping, maxGapSize)
    THEN [outcome |-> "gap", result |-> Int2D(0)]
    ELSE With(Interpolate(list, variableMapping, timestamp, mode, NoValues),
              LAMBDA in :
             IF ~in.allValid
             THEN [outcome |-> "input", result |-> Int2D(0)]
             ELSE With(evaluate(root, in.variableValues), LAMBDA ev :
                      IF ~ev.ok
                      THEN [outcome |-> "evaluation", result |-> Int2D(0)]
                      ELSE IF isnan(ev.result) \/ isinf(ev.result)
                      THEN [outcome |-> "result", result |-> ev.result]
                      ELSE [outcome |-> "written", result |-> ev.result]))

\* ------------------------------------------------------------------------
\* int arithmetic of the progress statement (line 173)
\* ------------------------------------------------------------------------

\* int has 32 bits; a product is kept as two 16-bit halves.
Half == 65536

\* x * m for 0 <= x < 2^31 and a small factor m, as [hi, lo] with
\* x * m = hi * 2^16 + lo.
MulPair(x, m) ==
    LET lo == (x % Half) * m
    IN  [hi |-> (x \div Half) * m + lo \div Half, lo |-> lo % Half]

PairLeq(p, q) == p.hi < q.hi \/ (p.hi = q.hi /\ p.lo <= q.lo)

\* The product does not fit an int.
Overflows(p) == p.hi >= Half \div 2

\* The low 32 bits of the product, read as a two's complement int.
ToInt32(p) ==
    LET h == p.hi % Half
    IN  IF h >= Half \div 2 THEN (h - Half) * Half + p.lo ELSE h * Half + p.lo

\* Integer division and remainder of C++: truncation towards zero (y > 0).
TruncDiv(x, y) == IF x >= 0 THEN x \div y ELSE -((-x) \div y)
TruncRem(x, y) == x - y * TruncDiv(x, y)

\* floor(index * 100 / total) without overflow, for 0 <= index < total.
ExactQuotient(index, total) ==
    CHOOSE q \in 0..99 :
        /\ PairLeq(MulPair(total, q), MulPair(index, 100))
        /\ ~PairLeq(MulPair(total, q + 1), MulPair(index, 100))

\* (i * 100) / timestamps.size(). When i * 100 overflows int the
\* behaviour is undefined: the build either wraps the product or computes
\* it in a wider register.
ProgressValues(index, total) ==
    LET product == MulPair(index, 100)
    IN  IF ~Overflows(product) THEN {TruncDiv(ToInt32(product), total)}
        ELSE {TruncDiv(ToInt32(product), total), ExactQuotient(index, total)}

\* A variant of the iteration that ends the run with a failure at the
\* first point it cannot write.
ProcessTimestamp_AbortsOnSkip ==
    /\ pc = "body"
    /\ \E p \in {ProcessPoint(timestamps[i + 1], rootNode, requiredVars,
                              currentVariableMapping, currentMaxGapSize,
                              boundaryMode)} :
       \E progress \in ProgressValues(i, Len(timestamps)) :
       LET timestamp == timestamps[i + 1]
       IN  /\ pointLog' = Append(pointLog, p.outcome)
           /\ IF p.outcome # "written"
              THEN /\ skippedPoints' = skippedPoints + 1
                   /\ emitted' = Append(emitted, computationFailed(
                                     Msg("Evaluation failed", << >>)))
                   /\ pc' = "done"
                   /\ returnedAt' = 157
                   /\ UNCHANGED <<currentOutputSeries, validPoints, lastProgress>>
              ELSE /\ currentOutputSeries' =
                          [currentOutputSeries EXCEPT
                              !.data = addData(@, timestamp, p.result)]
                   /\ validPoints' = validPoints + 1
                   /\ pc' = "loop"
                   /\ UNCHANGED <<skippedPoints, returnedAt>>
                   /\ IF progress # lastProgress /\ TruncRem(progress, 10) = 0
                      THEN /\ emitted' = Append(emitted, progressUpdated(progress))
                           /\ lastProgress' = progress
                      ELSE UNCHANGED <<emitted, lastProgress>>
    /\ i' = i + 1
    /\ UNCHANGED <<requestVars, cancelRequested, rootNode,
                   requiredVars, timestamps, boundaryMode, dialogVars, lockVars, cancelPoint, fnVars>>

\* Lines 119-178: the body of one iteration, and ++i.
ProcessTimestamp ==
    /\ pc = "body"
    /\ \E p \in {ProcessPoint(timestamps[i + 1], rootNode, requiredVars,
                              currentVariableMapping, currentMaxGapSize,
                              boundaryMode)} :
       \E progress \in ProgressValues(i, Len(timestamps)) :
       LET timestamp == timestamps[i + 1]
       IN  /\ pointLog' = Append(pointLog, p.outcome)
           /\ IF p.outcome # "written"
              THEN /\ skippedPoints' = skippedPoints + 1
                   /\ UNCHANGED <<currentOutputSeries, validPoints, emitted,
                                  lastProgress>>
              ELSE /\ currentOutputSeries' =
                          [currentOutputSeries EXCEPT
                              !.data = addData(@, timestamp, p.result)]
                   /\ validPoints' = validPoints + 1
                   /\ UNCHANGED skippedPoints
                   /\ IF progress # lastProgress /\ TruncRem(progress, 10) = 0
                      THEN /\ emitted' = Append(emitted, progressUpdated(progress))
                           /\ lastProgress' = progress
                      ELSE UNCHANGED <<emitted, lastProgress>>
    /\ i' = i + 1
    /\ pc' = "loop"
    /\ UNCHANGED <<requestVars, cancelRequested, returnedAt, rootNode,
                   requiredVars, timestamps, boundaryMode, dialogVars, lockVars, cancelPoint, fnVars>>

\* Variants of the end of the run that differ from the code in one
\* respect each.

\* Without the return of line 187: the failure falls through to the
\* completion signals.
Finish_MissingReturn ==
    /\ pc = "loop"
    /\ ~(i < Len(timestamps))
    /\ currentOutputSeries' = [currentOutputSeries EXCEPT !.updates = @ + 1]
    /\ IF validPoints = 0
       THEN /\ emitted' = emitted \o <<computationFailed(
                   Msg("Expression produced no valid results (%1 points skipped) - check for division by zero or invalid operations",
                       <<ToString(skippedPoints)>>)),
                   progressUpdated(100), computationComplete>>
            /\ returnedAt' = 198
       ELSE /\ emitted' = emitted \o <<progressUpdated(100), computationComplete>>
            /\ returnedAt' = 198
    /\ pc' = "done"
    /\ UNCHANGED <<requestVars, cancelRequested, rootNode, requiredVars,
                   timestamps, i, lastProgress, validPoints, skippedPoints,
                   boundaryMode, dialogVars, lockVars, pointLog, cancelPoint, fnVars>>

\* Puts the number of written points in the failure message.
Finish_ReportsValidPoints ==
    /\ pc = "loop"
    /\ ~(i < Len(timestamps))
    /\ currentOutputSeries' = [currentOutputSeries EXCEPT !.updates = @ + 1]
    /\ IF validPoints = 0
       THEN /\ emitted' = Append(emitted, computationFailed(
                   Msg("Expression produced no valid results (%1 points skipped) - check for division by zero or invalid operations",
                       <<ToString(validPoints)>>)))
            /\ returnedAt' = 187
       ELSE /\ emitted' = emitted \o <<progressUpdated(100), computationComplete>>
            /\ returnedAt' = 198
    /\ pc' = "done"
    /\ UNCHANGED <<requestVars, cancelRequested, rootNode, requiredVars,
                   timestamps, i, lastProgress, validPoints, skippedPoints,
                   boundaryMode, dialogVars, lockVars, pointLog, cancelPoint, fnVars>>

\* Lines 181-198: the loop condition failed.
Finish ==
    /\ pc = "loop"
    /\ ~(i < Len(timestamps))
    /\ currentOutputSeries' = [currentOutputSeries EXCEPT !.updates = @ + 1]
    /\ IF validPoints = 0
       THEN /\ emitted' = Append(emitted, computationFailed(
                   Msg("Expression produced no valid results (%1 points skipped) - check for division by zero or invalid operations",
                       <<ToString(skippedPoints)>>)))
            /\ returnedAt' = 187
       ELSE /\ emitted' = emitted \o <<progressUpdated(100), computationComplete>>
            /\ returnedAt' = 198
    /\ pc' = "done"
    /\ UNCHANGED <<requestVars, cancelRequested, rootNode, requiredVars,
                   timestamps, i, lastProgress, validPoints, skippedPoints,
                   boundaryMode, dialogVars, lockVars, pointLog, cancelPoint, fnVars>>

Next ==
    \/ Compute
    \/ cancelComputation
    \/ StartComputation
    \/ CheckCancel
    \/ ProcessTimestamp
    \/ Finish

Spec == Init /\ [][Next]_vars

\* ------------------------------------------------------------------------
\* Direct calls of collectTimestamps and isTimestampValid
\* ------------------------------------------------------------------------

\* The series with strictly increasing timestamps drawn from 0..MaxTime,
\* at most MaxSeriesLen samples long. The two helpers read timestamps only.
RECURSIVE Ascending(_)
Ascending(set) ==
    IF set = {} THEN << >>
    ELSE LET m == CHOOSE x \in set : \A y \in set : x <= y
         IN  <<Pt(m, Int2D(0))>> \o Ascending(set \ {m})

DrawnSeries ==
    {Ascending(set) : set \in {x \in SUBSET (0..MaxTime) :
                                   Cardinality(x) <= MaxSeriesLen}}

DrawnMappings ==
    {EmptyMap}
        \cup {Bind1(n, s) : n \in {"a", "b"}, s \in DrawnSeries}
        \cup {Bind2("a", s1, "b", s2) : s1 \in DrawnSeries, s2 \in DrawnSeries}

InitFn ==
    /\ ComputerInit
    /\ NoDialogOpen
    /\ currentMaxGapSize = DefaultMaxGapSize
    /\ boundaryMode = "nan"
    /\ fnArgs \in [series : DrawnMappings, timestamp : 0..MaxTime,
                   maxGapSize : 0..MaxGap]
    /\ fnResult = NoCall

CallCollectTimestamps ==
    /\ fnResult' = [called |-> "collectTimestamps",
                    timestamps |-> collectTimestamps(fnArgs.series),
                    valid |-> FALSE]
    /\ UNCHANGED <<requestVars, currentOutputSeries, cancelRequested,
                   workerVars, boundaryMode, dialogVars, lockVars, cancelPoint, fnArgs>>

CallIsTimestampValid ==
    /\ fnResult' = [called |-> "isTimestampValid",
                    timestamps |-> << >>,
                    valid |-> isTimestampValid(fnArgs.timestamp, fnArgs.series,
                                               fnArgs.maxGapSize)]
    /\ UNCHANGED <<requestVars, currentOutputSeries, cancelRequested,
                   workerVars, boundaryMode, dialogVars, lockVars, cancelPoint, fnArgs>>

NextFn ==
    \/ CallCollectTimestamps
    \/ CallIsTimestampValid

SpecFn == InitFn /\ [][NextFn]_vars

\* ------------------------------------------------------------------------
\* The loop of startComputation over a union of any size
\* ------------------------------------------------------------------------

\* The loop of lines 110-198 seen through its counters only: the union
\* is given by its size (fnArgs.total), an iteration either writes a
\* point or skips it, and a stretch of skipped iterations, which emit
\* nothing, is taken in one step.
LoopStrides == 100
MaxWrites == 2
BigUnion == 30000000

UnionSizes == {3, 10, BigUnion}

Stride(total) == IF total < LoopStrides THEN 1 ELSE total \div LoopStrides

InitLoop ==
    /\ currentExpression = << >>
    /\ currentVariableMapping = EmptyMap
    /\ currentOutputSeries = Series(<< >>)
    /\ currentMaxGapSize = DefaultMaxGapSize
    /\ cancelRequested = FALSE
    /\ cancelPoint = NoCancelPoint
    /\ computeMutex = "free"
    /\ controller = Outside
    /\ mathSource = {}
    /\ dialog = NoDialog
    /\ pc = "loop"
    /\ returnedAt = 0
    /\ rootNode = NullNode
    /\ requiredVars = << >>
    /\ timestamps = << >>
    /\ i = 0
    /\ lastProgress = -1
    /\ validPoints = 0
    /\ skippedPoints = 0
    /\ emitted = <<computationStarted>>
    /\ pointLog = << >>
    /\ boundaryMode = "nan"
    /\ fnArgs \in [total : UnionSizes]
    /\ fnResult = NoCall

\* Lines 110-178 for an iteration that writes its point.
LoopWritePoint ==
    /\ pc = "loop"
    /\ i < fnArgs.total
    /\ ~cancelRequested
    /\ validPoints < MaxWrites
    /\ \E progress \in ProgressValues(i, fnArgs.total) :
           IF progress # lastProgress /\ TruncRem(progress, 10) = 0
           THEN /\ emitted' = Append(emitted, progressUpdated(progress))
                /\ lastProgress' = progress
           ELSE UNCHANGED <<emitted, lastProgress>>
    /\ validPoints' = validPoints + 1
    /\ i' = i + 1
    /\ UNCHANGED <<requestVars, currentOutputSeries, cancelRequested, pc,
                   returnedAt, rootNode, requiredVars, timestamps,
                   skippedPoints, pointLog, boundaryMode, dialogVars, lockVars, cancelPoint, fnVars>>

\* Lines 110-166 for a stretch of iterations that skip their points.
LoopSkipPoints ==
    /\ pc = "loop"
    /\ i < fnArgs.total
    /\ ~cancelRequested
    /\ \E n \in {IF i + Stride(fnArgs.total) <= fnArgs.total
                 THEN Stride(fnArgs.total) ELSE fnArgs.total - i} :
           /\ i' = i + n
           /\ skippedPoints' = skippedPoints + n
    /\ UNCHANGED <<requestVars, currentOutputSeries, cancelRequested, pc,
                   returnedAt, rootNode, requiredVars, timestamps,
                   lastProgress, validPoints, emitted, pointLog, boundaryMode, dialogVars, lockVars,
                   cancelPoint, fnVars>>

\* Lines 113-117 with the flag set.
LoopCancelled ==
    /\ pc = "loop"
    /\ i < fnArgs.total
    /\ cancelRequested
    /\ emitted' = Append(emitted,
                         computationFailed(Msg("Computation cancelled", << >>)))
    /\ pc' = "done"
    /\ returnedAt' = 116
    /\ UNCHANGED <<requestVars, currentOutputSeries, cancelRequested, rootNode,
                   requiredVars, timestamps, i, lastProgress, validPoints,
                   skippedPoints, pointLog, boundaryMode, dialogVars, lockVars, cancelPoint, fnVars>>

\* Lines 181-198.
LoopFinish ==
    /\ pc = "loop"
    /\ ~(i < fnArgs.total)
    /\ currentOutputSeries' = [currentOutputSeries EXCEPT !.updates = @ + 1]
    /\ IF validPoints = 0
       THEN /\ emitted' = Append(emitted, computationFailed(
                   Msg("Expression produced no valid results (%1 points skipped) - check for division by zero or invalid operations",
                       <<ToString(skippedPoints)>>)))
            /\ returnedAt' = 187
       ELSE /\ emitted' = emitted \o <<progressUpdated(100), computationComplete>>
            /\ returnedAt' = 198
    /\ pc' = "done"
    /\ UNCHANGED <<requestVars, cancelRequested, rootNode, requiredVars,
                   timestamps, i, lastProgress, validPoints, skippedPoints,
                   boundaryMode, dialogVars, lockVars, pointLog, cancelPoint, fnVars>>

NextLoop ==
    \/ LoopWritePoint
    \/ LoopSkipPoints
    \/ cancelComputation
    \/ LoopCancelled
    \/ LoopFinish

SpecLoop == InitLoop /\ [][NextLoop]_vars

\* ------------------------------------------------------------------------
\* Calls on a MathExpressionParser
\* ------------------------------------------------------------------------

\* The expressions parsed: every string of up to MaxLexemes of the
\* characters below, and a list of expressions with numbers, constants,
\* functions, parentheses and faults.
MaxLexemes == 5

Lexemes == {"a", "b", "+", "-", "*", "/", "^"}

LexemeStrings == UNION {[1..n -> Lexemes] : n \in 0..MaxLexemes}

ListedExpressions ==
    { <<"2", "^", "3", "^", "2">>,
      <<"1", "0", "-", "3", "-", "2">>,
      <<"-", "2", "^", "2">>,
      <<"2", "+", "3", "*", "4">>,
      <<"2", "*", "3", "^", "2">>,
      <<"(", "2", "+", "3", ")", "*", "4">>,
      <<"a", "*", "b", "+", "a">>,
      <<"s", "i", "n", "(", "a", ")", "+", "p", "i", "*", "e">>,
      <<"s", "q", "r", "t", "(", "4", ")">>,
      <<"s", "q", "r", "t", "(", "a", ")">>,
      <<"l", "o", "g", "(", "b", ")">>,
      <<"l", "o", "g", "(", "1", ")">>,
      <<"1", "/", "0">>,
      <<"a", "/", "(", "b", "+", "c", ")">>,
      <<"1", "+">>,
      <<"f", "o", "o", "(", "1", ")">>,
      <<"s", "q", "r", "t", " ", "2">>,
      <<"s", "q", "r", "t">>,
      <<"s", "q", "r", "t", "(", "2">>,
      <<"(", "2">>,
      <<"2", ")">>,
      <<"a", " ", "b">>,
      <<")">>,
      <<"a", "$">>,
      <<" ">> }

\* Runs of digits and '.', alone and as operands.
MaxNumeral == 3
NumeralChars == {"1", "5", "."}
Numerals == UNION {[1..n -> NumeralChars] : n \in 1..MaxNumeral}
NumeralExpressions ==
    Numerals
        \cup {n \o <<"+", "1">> : n \in Numerals}
        \cup { <<"1", ".", "2", ".", "3">>,
               <<"2", "*", "1", ".", "2", ".", "3">>,
               <<"a", "+", ".">>,
               <<".", ".", " ", "1">> }

ParserExpressions ==
    LexemeStrings \cup ListedExpressions \cup NumeralExpressions

\* Expressions of a parse call made before the one observed: one that
\* succeeds and one that fails.
EarlierExpressions == {<<"a">>, <<"a", "+">>}

\* The variable values handed to evaluate.
Valuations ==
    { [v \in {"a", "b"} |-> IF v = "a" THEN Int2D(2) ELSE Int2D(0)],
      [v \in {"a"} |-> Int2D(0 - 1)] }

ParserResult(called, parsed, errorMessage, ok, value, variables) ==
    [called |-> called, parsed |-> parsed, errorMessage |-> errorMessage,
     ok |-> ok, value |-> value, variables |-> variables]

\* MathExpressionParser(): no tree, no error.
InitParser ==
    /\ ComputerInit
    /\ NoDialogOpen
    /\ currentMaxGapSize = DefaultMaxGapSize
    /\ boundaryMode = "nan"
    /\ fnArgs \in [expression : ParserExpressions]
    /\ fnResult = NoCall

\* parse() of another expression, before the call observed.
CallParseEarlier ==
    /\ fnResult.called = "none"
    /\ \E e \in EarlierExpressions :
       \E r \in {parse(e)} :
           /\ rootNode' = r.rootNode
           /\ fnResult' = ParserResult("earlier", r.result, r.errorMessage,
                                       FALSE, Int2D(0), << >>)
    /\ UNCHANGED <<requestVars, currentOutputSeries, cancelRequested, pc,
                   returnedAt, requiredVars, timestamps, i, lastProgress,
                   validPoints, skippedPoints, emitted, pointLog, boundaryMode, dialogVars, lockVars,
                   cancelPoint, fnArgs>>

CallParse ==
    /\ fnResult.called \in {"none", "earlier"}
    /\ \E r \in {parse(fnArgs.expression)} :
           /\ rootNode' = r.rootNode
           /\ fnResult' = ParserResult("parse", r.result, r.errorMessage,
                                       FALSE, Int2D(0), << >>)
    /\ UNCHANGED <<requestVars, currentOutputSeries, cancelRequested, pc,
                   returnedAt, requiredVars, timestamps, i, lastProgress,
                   validPoints, skippedPoints, emitted, pointLog, boundaryMode, dialogVars, lockVars,
                   cancelPoint, fnArgs>>

CallEvaluate ==
    /\ fnResult.called = "parse"
    /\ \E variables \in Valuations :
       \E r \in {evaluate(rootNode, variables)} :
           /\ fnResult' = ParserResult("evaluate", fnResult.parsed,
                                       fnResult.errorMessage, r.ok, r.result,
                                       << >>)
           /\ fnArgs' = [expression |-> fnArgs.expression,
                         variables |-> variables]
    /\ UNCHANGED <<requestVars, currentOutputSeries, cancelRequested,
                   workerVars, boundaryMode, dialogVars, lockVars, cancelPoint>>

CallGetVariables ==
    /\ fnResult.called = "parse"
    /\ fnResult' = ParserResult("getVariables", fnResult.parsed,
                                fnResult.errorMessage, FALSE, Int2D(0),
                                getVariables(rootNode))
    /\ UNCHANGED <<requestVars, currentOutputSeries, cancelRequested,
                   workerVars, boundaryMode, dialogVars, lockVars, cancelPoint, fnArgs>>

NextParser ==
    \/ CallParseEarlier
    \/ CallParse
    \/ CallEvaluate
    \/ CallGetVariables

SpecParser == InitParser /\ [][NextParser]_vars

\* ------------------------------------------------------------------------
\* The controller thread and the worker thread, statement by statement
\* ------------------------------------------------------------------------

\* compute() and cancelComputation() run on the controller thread at any
\* time, also while the worker is inside startComputation(); each takes
\* computeMutex (QMutexLocker) and releases it when it returns.

ThreadExpressions == {<<"a">>, <<"a", "/", "b">>}

ThreadMappings ==
    { Bind2("a", SerRamp, "b", SerNegOne),
      Bind2("a", SerRamp, "b", SerEmpty) }

\* Line 29 of compute(): the locker takes the mutex.
ComputeLock ==
    /\ controller.at = 0
    /\ computeMutex = "free"
    /\ computeMutex' = "controller"
    /\ \E expression \in ThreadExpressions, variableMapping \in ThreadMappings,
          data \in OutputContents :
           controller' = [at |-> 31, expression |-> expression,
                          variableMapping |-> variableMapping,
                          outputSeries |-> Series(data),
                          maxGapSize |-> DefaultMaxGapSize]
    /\ UNCHANGED <<requestVars, currentOutputSeries, cancelRequested,
                   workerVars, boundaryMode, dialogVars, cancelPoint, fnVars>>

\* Lines 31-34.
ComputeWriteRequest ==
    /\ controller.at = 31
    /\ currentExpression' = controller.expression
    /\ currentVariableMapping' = controller.variableMapping
    /\ currentOutputSeries' = controller.outputSeries
    /\ currentMaxGapSize' = controller.maxGapSize
    /\ controller' = [at |-> 35]
    /\ UNCHANGED <<cancelRequested, workerVars, boundaryMode, dialogVars, cancelPoint,
                   computeMutex, fnVars>>

\* Lines 35-36: the flag is cleared and the locker releases the mutex. If
\* no run is in progress the worker is started afresh on the request.
ComputeReturn ==
    /\ controller.at = 35
    /\ cancelRequested' = FALSE
    /\ computeMutex' = "free"
    /\ controller' = Outside
    /\ IF pc \in {"idle", "ready", "done"}
       THEN /\ pc' = "ready"
            /\ returnedAt' = 0
            /\ rootNode' = NullNode
            /\ requiredVars' = << >>
            /\ timestamps' = << >>
            /\ i' = 0
            /\ lastProgress' = -1
            /\ validPoints' = 0
            /\ skippedPoints' = 0
            /\ emitted' = << >>
            /\ pointLog' = << >>
            /\ cancelPoint' = NoCancelPoint
       ELSE UNCHANGED <<workerVars, cancelPoint>>
    /\ UNCHANGED <<requestVars, currentOutputSeries, boundaryMode, dialogVars, fnVars>>

\* Line 202 of cancelComputation(): the locker takes the mutex.
CancelLock ==
    /\ controller.at = 0
    /\ computeMutex = "free"
    /\ computeMutex' = "controller"
    /\ controller' = [at |-> 203]
    /\ UNCHANGED <<requestVars, currentOutputSeries, cancelRequested,
                   workerVars, boundaryMode, dialogVars, cancelPoint, fnVars>>

\* Lines 203-204.
CancelReturn ==
    /\ controller.at = 203
    /\ cancelRequested' = TRUE
    /\ cancelPoint' = IF ~cancelPoint.set /\ CheckAhead
                      THEN [set |-> TRUE, i |-> i, validPoints |-> validPoints]
                      ELSE cancelPoint
    /\ computeMutex' = "free"
    /\ controller' = Outside
    /\ UNCHANGED <<requestVars, currentOutputSeries, workerVars, boundaryMode, dialogVars,
                   fnVars>>

\* A step of the worker thread inside startComputation().
WorkerStep ==
    \/ StartComputation
    \/ CheckCancel
    \/ ProcessTimestamp
    \/ Finish

NextThreads ==
    \/ ComputeLock
    \/ ComputeWriteRequest
    \/ ComputeReturn
    \/ CancelLock
    \/ CancelReturn
    \/ StartComputation
    \/ CheckCancel
    \/ ProcessTimestamp
    \/ Finish

SpecThreads == Init /\ [][NextThreads]_vars

\* ------------------------------------------------------------------------
\* MathTraceDialog and MathDataSource
\* ------------------------------------------------------------------------

\* DataSource::addSeries, removeSeriesByLabel and getSeriesByLabel on the
\* series the source holds.
addSeries(source, series) == source \cup {series}
removeSeriesByLabel(source, label) == {x \in source : x.label # label}
getSeriesByLabel(source, label) == {x \in source : x.label = label}

addMathSeries(source, series) == addSeries(source, series)
removeMathSeries(source, label) == removeSeriesByLabel(source, label)
hasMathSeries(source, label) == getSeriesByLabel(source, label) # {}

\* The math trace that exists when the dialog opens.
Original == [label |-> "T", id |-> "original"]

\* What the user enters before pressing OK.
TraceNames == {"T", "U"}

DialogExpressions == {<<"a">>, <<"a", "/", "b">>, <<"a", " ", "+">>}

DialogMappings ==
    { Bind1("a", SerRamp),
      Bind2("a", SerRamp, "b", SerNegOne),
      Bind2("a", SerRamp, "b", SerZero),
      Bind2("a", SerRamp, "b", SerEmpty) }

\* The dialog after its constructor, and after setEditMode(Original).
OpenDialog(isEditMode) ==
    [alive |-> TRUE, at |-> "open", isEditMode |-> isEditMode,
     editingSeries |-> IF isEditMode THEN Original.label ELSE "",
     currentSeries |-> "", computeThread |-> FALSE, okEnabled |-> TRUE,
     handled |-> 0]

InitDialog ==
    /\ ComputerInit
    /\ boundaryMode \in {"nan", "clamp"}
    /\ fnArgs = NoArgs
    /\ fnResult = NoCall
    /\ mathSource = {Original}
    /\ dialog \in {OpenDialog(TRUE), OpenDialog(FALSE)}

validateInputs(traceName, expression, variableMapping) ==
    /\ ~(/\ hasMathSeries(mathSource, traceName)
         /\ (~dialog.isEditMode \/ dialog.editingSeries # traceName))
    /\ trimmed(expression) # << >>
    /\ \E parser \in {parse(trimmed(expression))} :
           /\ parser.result
           /\ variableMapping # EmptyMap
           /\ Range(getVariables(parser.rootNode)) \subseteq DOMAIN variableMapping

\* Lines 481-530. The new computer is given the request and its thread is
\* started.
createMathTrace(traceName, expression, variableMapping) ==
    /\ mathSource' =
           addMathSeries(IF dialog.isEditMode /\ dialog.editingSeries # ""
                         THEN removeMathSeries(mathSource, dialog.editingSeries)
                         ELSE mathSource,
                         [label |-> traceName, id |-> "new"])
    /\ dialog' = [dialog EXCEPT !.currentSeries = traceName,
                                !.computeThread = TRUE,
                                !.okEnabled = FALSE,
                                !.handled = 0]
    /\ compute(trimmed(expression), variableMapping, Series(<< >>),
               DefaultMaxGapSize)

\* The OK button.
accept ==
    /\ dialog.alive
    /\ dialog.at = "open"
    /\ dialog.okEnabled
    /\ \E traceName \in TraceNames, expression \in DialogExpressions,
          variableMapping \in DialogMappings :
           /\ validateInputs(traceName, expression, variableMapping)
           /\ createMathTrace(traceName, expression, variableMapping)

\* A variant of the failure handler that leaves the series in the source.
onComputationFailed_KeepsSeries ==
    /\ UNCHANGED mathSource
    /\ dialog' = [dialog EXCEPT !.currentSeries = "",
                                !.okEnabled = TRUE,
                                !.handled = @ + 1]

onComputationFailed ==
    /\ mathSource' = IF dialog.currentSeries # ""
                     THEN removeMathSeries(mathSource, dialog.currentSeries)
                     ELSE mathSource
    /\ dialog' = [dialog EXCEPT !.currentSeries = "",
                                !.okEnabled = TRUE,
                                !.handled = @ + 1]

onComputationComplete ==
    /\ UNCHANGED mathSource
    /\ dialog' = [dialog EXCEPT !.at = "closed", !.handled = @ + 1]

\* The dialog's thread takes the next signal of the computer from its
\* event queue and calls the slot connected to it.
Deliver ==
    /\ dialog.alive
    /\ dialog.at \in {"open", "closed"}
    /\ dialog.handled < Len(emitted)
    /\ \E sig \in {emitted[dialog.handled + 1]} :
           IF sig.signal = "computationFailed" THEN onComputationFailed
           ELSE IF sig.signal = "computationComplete" THEN onComputationComplete
           ELSE /\ UNCHANGED mathSource
                /\ dialog' = [dialog EXCEPT !.handled = @ + 1]
    /\ UNCHANGED <<requestVars, currentOutputSeries, cancelRequested,
                   workerVars, boundaryMode, cancelPoint, lockVars, fnVars>>

\* ~MathTraceDialog, lines 275-285: with a thread the computation is
\* cancelled and the dialog's thread waits for it.
Destroy ==
    /\ dialog.alive
    /\ dialog.at \in {"open", "closed"}
    /\ dialog' = [dialog EXCEPT !.at = "destructor"]
    /\ IF dialog.computeThread
       THEN /\ cancelRequested' = TRUE
            /\ cancelPoint' = IF ~cancelPoint.set /\ CheckAhead
                              THEN [set |-> TRUE, i |-> i,
                                    validPoints |-> validPoints]
                              ELSE cancelPoint
       ELSE UNCHANGED <<cancelRequested, cancelPoint>>
    /\ UNCHANGED <<requestVars, currentOutputSeries, workerVars, boundaryMode,
                   mathSource, lockVars, fnVars>>

\* Lines 285-292: the thread has finished; the dialog is gone and with it
\* the signals it has not handled.
Destroyed ==
    /\ dialog.at = "destructor"
    /\ pc \in {"idle", "ready", "done"}
    /\ dialog' = [dialog EXCEPT !.alive = FALSE, !.at = "destroyed"]
    /\ UNCHANGED <<requestVars, currentOutputSeries, cancelRequested,
                   workerVars, boundaryMode, cancelPoint, mathSource,
                   lockVars, fnVars>>

\* The worker's steps leave the dialog and the source alone; a dialog
\* that is gone starts no thread.
NextDialog ==
    \/ accept
    \/ Deliver
    \/ Destroy
    \/ Destroyed
    \/ StartComputation /\ pc = "ready" /\ dialog.at # "destroyed"
    \/ CheckCancel
    \/ ProcessTimestamp
    \/ Finish

SpecDialog == InitDialog /\ [][NextDialog]_vars

\* ------------------------------------------------------------------------
\* Definitions shared by the properties
\* ------------------------------------------------------------------------

Terminal(sig) == sig.signal \in {"computationComplete", "computationFailed"}

LastEmitted == emitted[Len(emitted)]

\* The point each of the first k union timestamps yields, in order: what
\* the output series holds when the loop has processed k timestamps.
RECURSIVE ExpectedPoints(_)
ExpectedPoints(k) ==
    IF k = 0 THEN << >>
    ELSE With(ProcessPoint(timestamps[k], rootNode, requiredVars,
                           currentVariableMapping, currentMaxGapSize,
                           boundaryMode), LAMBDA p :
             IF p.outcome = "written"
             THEN Append(ExpectedPoints(k - 1), Pt(timestamps[k], p.result))
             ELSE ExpectedPoints(k - 1))

\* Every double written to the output series is one the model computes
\* exactly.
NoUnmodelled ==
    \A j \in 1..Len(currentOutputSeries.data) :
        currentOutputSeries.data[j].v.k \in {"num", "irr"}

\* ------------------------------------------------------------------------
\* C1
\* ------------------------------------------------------------------------

\* C1: in every run computationStarted is the first signal emitted, at
\* most one terminal signal (computationComplete or computationFailed) is
\* emitted, and nothing is emitted after it, whatever cancelComputation
\* calls interleave.
C1_SignalOrder ==
    /\ emitted # << >> => emitted[1] = computationStarted
    /\ \A j \in 1..Len(emitted) : Terminal(emitted[j]) => j = Len(emitted)
    /\ Cardinality({j \in 1..Len(emitted) : Terminal(emitted[j])}) <= 1
    /\ pc \in {"loop", "body", "done"} => emitted # << >>

\* A run that completed with progress reported while a cancel request
\* arrived too late to stop it.
C1_Witness ==
    /\ pc = "done"
    /\ returnedAt = 198
    /\ cancelRequested
    /\ Len(emitted) >= 4

\* ------------------------------------------------------------------------
\* C2
\* ------------------------------------------------------------------------

C3_CancelLatency ==
    cancelPoint.set =>
        /\ validPoints <= cancelPoint.validPoints + 1
        /\ Len(currentOutputSeries.data) <= cancelPoint.validPoints + 1
        /\ i <= cancelPoint.i + 1
        /\ \A j \in 1..Len(emitted) : emitted[j].signal # "computationComplete"
        /\ pc = "done" => returnedAt = 116

\* A cancel request that arrived inside an iteration: that iteration's
\* point was still appended, then the run stopped.
C3_Witness ==
    /\ cancelPoint.set
    /\ pc = "done"
    /\ validPoints = cancelPoint.validPoints + 1
    /\ i < Len(timestamps)

\* ------------------------------------------------------------------------
\* C4
\* ------------------------------------------------------------------------

\* C4: when a run stops on cancellation the output series holds exactly
\* the points appended for the union timestamps processed before the flag
\* was observed: nothing is cleared, removed or rolled back.
C4_CancelKeepsPoints ==
    (pc = "done" /\ returnedAt = 116) =>
        currentOutputSeries.data = ExpectedPoints(i)

\* A cancelled run that had already written points.
C4_Witness ==
    /\ pc = "done"
    /\ returnedAt = 116
    /\ Len(currentOutputSeries.data) >= 2

\* ------------------------------------------------------------------------
\* C5
\* ------------------------------------------------------------------------

TimestampsOf(s) == {s[j].t : j \in 1..Len(s)}

\* The mapping with the names "a" and "b" exchanged: the same series, met
\* in the other order by an iteration over the map.
Other(v) == IF v = "a" THEN "b" ELSE IF v = "b" THEN "a" ELSE v
Swapped(series) == [v \in {Other(u) : u \in DOMAIN series} |-> series[Other(v)]]

\* C5: for any bound series collectTimestamps returns a strictly
\* increasing sequence (so without duplicates) whose elements are exactly
\* the timestamps of all bound series, and the same sequence when the
\* series are bound the other way round.
C5_TimestampUnion ==
    fnResult.called = "collectTimestamps" =>
        LET ts == fnResult.timestamps
            series == fnArgs.series
        IN  /\ \A j \in 1..(Len(ts) - 1) : ts[j] < ts[j + 1]
            /\ Range(ts) = UNION {TimestampsOf(series[v]) : v \in DOMAIN series}
            /\ collectTimestamps(Swapped(series)) = ts

\* Two bound series that share a timestamp and interleave, the one bound
\* second starting first.
C5_Witness ==
    /\ fnResult.called = "collectTimestamps"
    /\ DOMAIN fnArgs.series = {"a", "b"}
    /\ TimestampsOf(fnArgs.series["a"]) \cap TimestampsOf(fnArgs.series["b"]) # {}
    /\ size(fnArgs.series["a"]) >= 2
    /\ size(fnArgs.series["b"]) >= 2
    /\ getTimestamp(fnArgs.series["b"], 0) < getTimestamp(fnArgs.series["a"], 0)
    /\ getTimestamp(fnArgs.series["b"], 1) > getTimestamp(fnArgs.series["a"], 0)

\* ------------------------------------------------------------------------
\* C6
\* ------------------------------------------------------------------------

\* The widths of the gaps of s that have the timestamp strictly inside.
BracketWidths(s, timestamp) ==
    {s[j + 1].t - s[j].t : j \in {k \in 1..(Len(s) - 1) :
                                     s[k].t < timestamp /\ timestamp < s[k + 1].t}}

ExampleSeries == Bind1("a", <<Pt(0, Int2D(0)), Pt(10, Int2D(0)),
                              Pt(2000, Int2D(0)), Pt(2010, Int2D(0))>>)

\* C6: a timestamp strictly between two consecutive samples of a series
\* is valid for that series exactly when the two samples are at most
\* maxGapSize apart: one such series with a wider gap makes the call
\* false, and the call is true when every bound series brackets the
\* timestamp within maxGapSize. With maxGapSize 1000 and samples
\* [0,10,2000,2010], 1000 is invalid, 5 and 2005 are valid.
C6_InteriorGap ==
    /\ fnResult.called = "isTimestampValid" =>
           LET series == fnArgs.series
               W(v) == BracketWidths(series[v], fnArgs.timestamp)
           IN  /\ (\E v \in DOMAIN series : \E w \in W(v) : w > fnArgs.maxGapSize)
                      => ~fnResult.valid
               /\ (\A v \in DOMAIN series :
                       W(v) # {} /\ \A w \in W(v) : w <= fnArgs.maxGapSize)
                      => fnResult.valid
               /\ \A v \in DOMAIN series :
                      W(v) # {} =>
                          (SeriesGapOk(fnArgs.timestamp, series[v], fnArgs.maxGapSize)
                              <=> \A w \in W(v) : w <= fnArgs.maxGapSize)
    /\ ~isTimestampValid(1000, ExampleSeries, DefaultMaxGapSize)
    /\ isTimestampValid(5, ExampleSeries, DefaultMaxGapSize)
    /\ isTimestampValid(2005, ExampleSeries, DefaultMaxGapSize)

\* A call with one bound series, the timestamp inside a gap exactly
\* maxGapSize wide: valid.
C6_Witness ==
    /\ fnResult.called = "isTimestampValid"
    /\ DOMAIN fnArgs.series = {"a"}
    /\ BracketWidths(fnArgs.series["a"], fnArgs.timestamp) = {fnArgs.maxGapSize}
    /\ fnResult.valid

\* ------------------------------------------------------------------------
\* C7
\* ------------------------------------------------------------------------

\* C7: with one bound series, a timestamp at or before the first sample
\* is valid exactly when it is within maxGapSize of the first sample, and
\* a timestamp at or after the last sample is valid exactly when it is
\* within maxGapSize of the last sample; a timestamp equal to the last
\* sample is therefore always valid.
C7_BoundaryDistance ==
    (/\ fnResult.called = "isTimestampValid"
     /\ DOMAIN fnArgs.series = {"a"}
     /\ size(fnArgs.series["a"]) > 0) =>
        LET s == fnArgs.series["a"]
            first == getTimestamp(s, 0)
            last == getTimestamp(s, size(s) - 1)
            t == fnArgs.timestamp
        IN  /\ t <= first => (fnResult.valid <=> first - t <= fnArgs.maxGapSize)
            /\ t >= last => (fnResult.valid <=> t - last <= fnArgs.maxGapSize)

\* ------------------------------------------------------------------------
\* C8
\* ------------------------------------------------------------------------

\* The gap policy holds for the timestamp in every bound series.
ValidEverywhere(timestamp) ==
    \A v \in DOMAIN currentVariableMapping :
        SeriesGapOk(timestamp, currentVariableMapping[v], currentMaxGapSize)

\* C8: an iteration appends a point for its timestamp only if the
\* timestamp is valid in every bound series; if it is invalid in one of
\* them, referenced by the expression or not, the output series is left
\* as it is and the skipped count grows by one.
C8_ValidInEverySeries ==
    [][(pc = "body" /\ pc' = "loop") =>
           LET timestamp == timestamps[i + 1]
           IN  /\ currentOutputSeries'.data # currentOutputSeries.data =>
                      /\ ValidEverywhere(timestamp)
                      /\ Len(currentOutputSeries'.data) =
                             Len(currentOutputSeries.data) + 1
                      /\ currentOutputSeries'.data[Len(currentOutputSeries'.data)].t
                             = timestamp
               /\ ~ValidEverywhere(timestamp) =>
                      /\ currentOutputSeries'.data = currentOutputSeries.data
                      /\ validPoints' = validPoints
                      /\ skippedPoints' = skippedPoints + 1]_vars

\* A finished run of an expression over "a" alone that skipped a
\* timestamp inside the gap of series "c" and wrote the others.
C8_Witness ==
    /\ pc = "done"
    /\ requiredVars = <<"a">>
    /\ "c" \in DOMAIN currentVariableMapping
    /\ \E j \in 1..Len(pointLog) :
           /\ pointLog[j] = "gap"
           /\ SeriesGapOk(timestamps[j], currentVariableMapping["a"],
                          currentMaxGapSize)
    /\ validPoints > 0

\* ------------------------------------------------------------------------
\* C9
\* ------------------------------------------------------------------------

\* C9: a point that cannot be written (gap, NaN/Inf input, evaluation
\* failure, NaN/Inf result) does not end the run: while the loop runs no
\* terminal signal has been emitted, every processed timestamp is either
\* written or counted as skipped, and a run that got past validation and
\* was not cancelled has processed every union timestamp and holds the
\* point of each one whose evaluation succeeds.
C9_SkipsNeverAbort ==
    /\ pc \in {"loop", "body"} =>
           /\ returnedAt = 0
           /\ \A j \in 1..Len(emitted) : ~Terminal(emitted[j])
           /\ currentOutputSeries.data = ExpectedPoints(i)
           /\ validPoints = Len(currentOutputSeries.data)
           /\ skippedPoints = i - validPoints
    /\ (pc = "done" /\ returnedAt \notin {66, 76, 86, 97, 116}) =>
           /\ i = Len(timestamps)
           /\ currentOutputSeries.data = ExpectedPoints(i)
           /\ skippedPoints = i - Len(currentOutputSeries.data)

\* A completed run that skipped a point and wrote the point of a later
\* timestamp.
C9_Witness ==
    /\ pc = "done"
    /\ returnedAt = 198
    /\ \E j \in 1..Len(pointLog) : \E k \in (j + 1)..Len(pointLog) :
           /\ pointLog[j] # "written"
           /\ pointLog[k] = "written"
           /\ currentOutputSeries.data[Len(currentOutputSeries.data)].t
                  = timestamps[k]

\* ------------------------------------------------------------------------
\* C10
\* ------------------------------------------------------------------------

\* C10: a run that got past validation, was not stopped by cancellation
\* and wrote no point ends with computationFailed whose skip count is the
\* size of the timestamp union; no run that wrote no point emits
\* computationComplete.
C10_AllSkippedFails ==
    /\ (pc = "done" /\ returnedAt \notin {66, 76, 86, 97, 116}
            /\ validPoints = 0) =>
           /\ returnedAt = 187
           /\ skippedPoints = Len(timestamps)
           /\ LastEmitted.signal = "computationFailed"
           /\ LastEmitted.error.args = <<ToString(Len(timestamps))>>
    /\ (\E j \in 1..Len(emitted) : emitted[j] = computationComplete) =>
           /\ validPoints > 0
           /\ currentOutputSeries.data # << >>

\* A run over a union of three timestamps, every one of them skipped.
C10_Witness ==
    /\ pc = "done"
    /\ returnedAt = 187
    /\ Len(timestamps) >= 3
    /\ skippedPoints = Len(timestamps)

\* ------------------------------------------------------------------------
\* C11
\* ------------------------------------------------------------------------

FailFast == {66, 76, 86, 97}

\* C11: a step that ends the run on a parse error, an unbound variable,
\* an empty input series or an empty timestamp union leaves the output
\* series as it was (not cleared, nothing appended, not finalized), and
\* the failure is the only signal after computationStarted, with no
\* timestamp processed.
C11_FailFastLeavesOutput ==
    [][(pc' = "done" /\ returnedAt' \in FailFast /\ pc # "done") =>
           /\ currentOutputSeries' = currentOutputSeries
           /\ i' = 0
           /\ validPoints' = 0
           /\ skippedPoints' = 0
           /\ pointLog' = << >>
           /\ Len(emitted') = 2
           /\ emitted'[1] = computationStarted
           /\ emitted'[2].signal = "computationFailed"]_vars

\* A run that failed on an empty timestamp union while the output series
\* held a point.
C11_Witness ==
    /\ pc = "done"
    /\ returnedAt = 97
    /\ currentOutputSeries.data # << >>
    /\ currentOutputSeries.updates = 0

\* ------------------------------------------------------------------------
\* C12
\* ------------------------------------------------------------------------

\* C12: a run whose expression parses and whose variables are all bound,
\* and whose mapping binds an empty series, fails at the empty-series
\* validation naming a variable bound to an empty series, and computes
\* no point.
C12_EveryBoundSeriesNonEmpty ==
    (/\ pc \in {"loop", "body", "done"}
     /\ returnedAt \notin {66, 76}
     /\ \E v \in DOMAIN currentVariableMapping :
            size(currentVariableMapping[v]) = 0) =>
        /\ pc = "done"
        /\ returnedAt = 86
        /\ LastEmitted.signal = "computationFailed"
        /\ LastEmitted.error.fmt = "Input series for variable '%1' is empty"
        /\ \E v \in DOMAIN currentVariableMapping :
               /\ size(currentVariableMapping[v]) = 0
               /\ LastEmitted.error.args = <<v>>
        /\ validPoints = 0

\* ------------------------------------------------------------------------
\* C13
\* ------------------------------------------------------------------------

IsProgress(sig) == sig.signal = "progressUpdated"

\* C13: the progress values of a run never decrease; a run that emits
\* computationComplete emits progressUpdated(100) right before it; a run
\* that ends with computationFailed (failure or cancellation) never
\* emits progressUpdated(100).
C13_ProgressMonotone ==
    /\ \A j \in 1..Len(emitted) : \A k \in j..Len(emitted) :
           (IsProgress(emitted[j]) /\ IsProgress(emitted[k])) =>
               emitted[j].progress <= emitted[k].progress
    /\ (emitted # << >> /\ LastEmitted = computationComplete) =>
           /\ Len(emitted) >= 2
           /\ emitted[Len(emitted) - 1] = progressUpdated(100)
    /\ (emitted # << >> /\ LastEmitted.signal = "computationFailed") =>
           \A j \in 1..Len(emitted) : emitted[j] # progressUpdated(100)

\* ------------------------------------------------------------------------
\* C14
\* ------------------------------------------------------------------------

\* C14: every value passed to progressUpdated lies in 0..100, for every
\* union size and iteration index.
C14_ProgressInRange ==
    \A j \in 1..Len(emitted) :
        IsProgress(emitted[j]) => emitted[j].progress \in 0..100

\* ------------------------------------------------------------------------
\* C15
\* ------------------------------------------------------------------------

\* The points of the first k timestamps of prologue record p, from the
\* request alone.
RECURSIVE PointsOf(_, _, _, _, _)
PointsOf(p, k, variableMapping, maxGapSize, mode) ==
    IF k = 0 THEN << >>
    ELSE With(ProcessPoint(p.timestamps[k], p.rootNode, p.requiredVars,
                           variableMapping, maxGapSize, mode), LAMBDA point :
             IF point.outcome = "written"
             THEN Append(PointsOf(p, k - 1, variableMapping, maxGapSize, mode),
                         Pt(p.timestamps[k], point.result))
             ELSE PointsOf(p, k - 1, variableMapping, maxGapSize, mode))

\* What an uncancelled run of the request yields on a cleared output
\* series: the return taken, the terminal signal and the points.
RunOutcome(expression, variableMapping, maxGapSize, mode) ==
    With(Prologue(expression, variableMapping), LAMBDA p :
        IF p.returned # 0
        THEN [returned |-> p.returned, last |-> p.signals[2], data |-> << >>]
        ELSE With(PointsOf(p, Len(p.timestamps), variableMapping, maxGapSize,
                           mode), LAMBDA points :
                 IF points = << >>
                 THEN [returned |-> 187,
                       last |-> computationFailed(
                           Msg("Expression produced no valid results (%1 points skipped) - check for division by zero or invalid operations",
                               <<ToString(Len(p.timestamps))>>)),
                       data |-> << >>]
                 ELSE [returned |-> 198, last |-> computationComplete,
                       data |-> points]))

CurrentOutcome ==
    RunOutcome(currentExpression, currentVariableMapping, currentMaxGapSize,
               boundaryMode)

\* C15 as stated: an uncancelled run ends with the outcome and leaves in
\* the output series the points that the request alone determines, those
\* of a run on a cleared output series, whatever the series held before.
C15_SameOutputWhateverBefore ==
    (pc = "done" /\ returnedAt # 116) =>
        /\ returnedAt = CurrentOutcome.returned
        /\ LastEmitted = CurrentOutcome.last
        /\ currentOutputSeries.data = CurrentOutcome.data

\* C15 amended: an uncancelled run ends with the outcome the request
\* alone determines, and if it got past the validations it leaves the
\* points the request alone determines, whatever the series held before.
C15_SameOutputPastValidation ==
    (pc = "done" /\ returnedAt # 116) =>
        /\ returnedAt = CurrentOutcome.returned
        /\ LastEmitted = CurrentOutcome.last
        /\ returnedAt \notin FailFast =>
               currentOutputSeries.data = CurrentOutcome.data

\* A completed run with no cancel request that left two or more points.
C15_Witness ==
    /\ pc = "done"
    /\ returnedAt = 198
    /\ ~cancelRequested
    /\ Len(currentOutputSeries.data) >= 2
    /\ currentOutputSeries.data = CurrentOutcome.data

\* ------------------------------------------------------------------------
\* C16
\* ------------------------------------------------------------------------

\* C16: after a parse call that returned false the parser holds no tree:
\* evaluate returns false for every variable mapping and getVariables
\* returns the empty list, whatever was parsed before.
C16_FailedParseLeavesNoTree ==
    /\ (fnResult.called = "parse" /\ ~fnResult.parsed) => rootNode = NullNode
    /\ (fnResult.called = "evaluate" /\ ~fnResult.parsed) => ~fnResult.ok
    /\ (fnResult.called = "getVariables" /\ ~fnResult.parsed) =>
           fnResult.variables = << >>

\* ------------------------------------------------------------------------
\* C17
\* ------------------------------------------------------------------------

\* The grammar level of the construct at the root of a tree: 0 for '+'
\* and '-', 1 for '*' and '/', 2 for '^', 3 for unary '-', 4 for a
\* primary.
Level(node) ==
    IF node.type # "NODE_OPERATOR" THEN 4
    ELSE CASE node.operatorType \in {"OP_ADD", "OP_SUBTRACT"} -> 0
           [] node.operatorType \in {"OP_MULTIPLY", "OP_DIVIDE"} -> 1
           [] node.operatorType = "OP_POWER" -> 2
           [] OTHER -> 3

\* The tree of an expression without parentheses is a derivation of
\*   expression := expression (+|-) term      term := term (*|/) power
\*   power := unary [^ power]                 unary := - unary | primary
RECURSIVE WellGrouped(_)
WellGrouped(node) ==
    IF node.type # "NODE_OPERATOR" THEN TRUE
    ELSE /\ WellGrouped(node.left)
         /\ CASE Level(node) = 0 ->
                     /\ WellGrouped(node.right)
                     /\ Level(node.right) >= 1
              [] Level(node) = 1 ->
                     /\ WellGrouped(node.right)
                     /\ Level(node.left) >= 1
                     /\ Level(node.right) >= 2
              [] Level(node) = 2 ->
                     /\ WellGrouped(node.right)
                     /\ Level(node.left) >= 3
                     /\ Level(node.right) >= 2
              [] OTHER -> Level(node.left) >= 3

OperatorSymbol(operatorType) ==
    CASE operatorType = "OP_ADD" -> "+"
      [] operatorType = "OP_SUBTRACT" -> "-"
      [] operatorType = "OP_MULTIPLY" -> "*"
      [] operatorType = "OP_DIVIDE" -> "/"
      [] operatorType = "OP_POWER" -> "^"
      [] OTHER -> "-"

\* The leaves and operators of a tree of variables, read left to right.
RECURSIVE Flatten(_)
Flatten(node) ==
    IF node.type = "NODE_VARIABLE" THEN <<node.variableName>>
    ELSE IF node.type # "NODE_OPERATOR" THEN <<"?">>
    ELSE IF node.operatorType = "OP_NEGATE"
    THEN <<"-">> \o Flatten(node.left)
    ELSE Flatten(node.left) \o <<OperatorSymbol(node.operatorType)>>
             \o Flatten(node.right)

\* The texts of the tokens of an expression, without the end marker.
TokenValues(expression) ==
    With(tokenize(expression).tokens, LAMBDA tokens :
        [j \in 1..(Len(tokens) - 1) |-> tokens[j].value])

N(n) == NumberNode(Int2D(n))

\* The parse of the expression, where it is the one parsed, succeeded
\* with this tree.
ParsesTo(expression, tree) ==
    (fnResult.called = "parse" /\ fnArgs.expression = expression) =>
        (fnResult.parsed /\ rootNode = tree)

GroupingExamples ==
    /\ ParsesTo(<<"2", "^", "3", "^", "2">>,
           OperatorNode("OP_POWER", N(2), OperatorNode("OP_POWER", N(3), N(2))))
    /\ (fnResult.called = "evaluate"
            /\ fnArgs.expression = <<"2", "^", "3", "^", "2">>) =>
           (fnResult.ok /\ fnResult.value = Int2D(512))
    /\ ParsesTo(<<"1", "0", "-", "3", "-", "2">>,
           OperatorNode("OP_SUBTRACT",
                        OperatorNode("OP_SUBTRACT", N(10), N(3)), N(2)))
    /\ ParsesTo(<<"2", "+", "3", "*", "4">>,
           OperatorNode("OP_ADD", N(2), OperatorNode("OP_MULTIPLY", N(3), N(4))))
    /\ ParsesTo(<<"2", "*", "3", "^", "2">>,
           OperatorNode("OP_MULTIPLY", N(2), OperatorNode("OP_POWER", N(3), N(2))))
    /\ ParsesTo(<<"-", "2", "^", "2">>,
           OperatorNode("OP_POWER", OperatorNode("OP_NEGATE", N(2), NullNode),
                        N(2)))

\* C17: the tree of every successfully parsed string of variables and
\* operators is the derivation of the five-level grammar whose leaves and
\* operators read left to right are the tokens: '^' groups to the right,
\* '+','-' and '*','/' to the left, '*','/' bind tighter than '+','-',
\* '^' tighter than '*','/', and a unary '-' takes the following unary
\* operand before '^' applies. 2^3^2 is 2^(3^2) = 512, 10-3-2 is
\* (10-3)-2, -2^2 is (-2)^2.
C17_GrammarTree ==
    /\ (/\ fnResult.called = "parse"
        /\ fnResult.parsed
        /\ \A j \in 1..Len(fnArgs.expression) : fnArgs.expression[j] \in Lexemes) =>
           /\ WellGrouped(rootNode)
           /\ Flatten(rootNode) = TokenValues(fnArgs.expression)
    /\ GroupingExamples

\* The parse of a^b^a: the right operand of the root is the second '^'.
C17_Witness ==
    /\ fnResult.called = "parse"
    /\ fnResult.parsed
    /\ fnArgs.expression = <<"a", "^", "b", "^", "a">>
    /\ rootNode.right.type = "NODE_OPERATOR"

\* ------------------------------------------------------------------------
\* C18
\* ------------------------------------------------------------------------

\* Expressions with one syntax fault each, and the fault.
SyntaxFaults ==
    { [expression |-> <<"s", "q", "r", "t", " ", "2">>, fault |-> "no ("],
      [expression |-> <<"s", "q", "r", "t">>, fault |-> "no ("],
      [expression |-> <<"s", "q", "r", "t", "(", "2">>, fault |-> "no )"],
      [expression |-> <<"(", "2">>, fault |-> "no )"],
      [expression |-> <<"f", "o", "o", "(", "1", ")">>, fault |-> "unknown function"],
      [expression |-> <<"1", "+">>, fault |-> "end of input"] }

\* The messages of an unexpected token and of trailing tokens.
GenericFormats ==
    {"Unexpected token: %1", "Unexpected token at position %1: %2"}

\* C18: parse of an expression with one of the four syntax faults (no
\* '(' after a function name, a missing ')', an unknown function applied
\* to an argument, input ending where an operand is expected) fails with
\* a message that is neither the unexpected-token nor the trailing-token
\* message nor the message of another of the four faults.
C18_DistinctFaultMessages ==
    \A f \in SyntaxFaults :
        (fnResult.called = "parse" /\ fnArgs.expression = f.expression) =>
            /\ ~fnResult.parsed
            /\ fnResult.errorMessage.fmt \notin GenericFormats
            /\ \A g \in SyntaxFaults :
                   g.fault # f.fault =>
                       parse(g.expression).errorMessage.fmt
                           # fnResult.errorMessage.fmt

\* ------------------------------------------------------------------------
\* C19
\* ------------------------------------------------------------------------

\* The arithmetic value of a tree under the variable values, undefined
\* where a variable has no value, a divisor is 0, sqrt is applied to a
\* value < 0 or log to a value <= 0, or an operand is undefined.
RECURSIVE Meaning(_, _)
Meaning(node, variables) ==
    LET Undefined == [defined |-> FALSE, v |-> Int2D(0)]
        Defined(v) == [defined |-> TRUE, v |-> v]
    IN  IF node.type = "NODE_NUMBER" THEN Defined(node.numberValue)
        ELSE IF node.type = "NODE_VARIABLE"
        THEN IF node.variableName \in DOMAIN variables
             THEN Defined(variables[node.variableName])
             ELSE Undefined
        ELSE IF node.type = "NODE_FUNCTION"
        THEN With(Meaning(node.argument, variables), LAMBDA a :
                 IF ~a.defined THEN Undefined
                 ELSE CASE node.functionType = "FUNC_ABS" -> Defined(DAbs(a.v))
                        [] node.functionType = "FUNC_SQRT" ->
                               IF DLess(a.v, Int2D(0)) THEN Undefined
                               ELSE Defined(DSqrt(a.v))
                        [] node.functionType = "FUNC_LOG" ->
                               IF DLess(a.v, Int2D(0)) \/ a.v = Int2D(0)
                               THEN Undefined
                               ELSE Defined(DLog(a.v))
                        [] node.functionType = "FUNC_EXP" -> Defined(DExp(a.v))
                        [] node.functionType = "FUNC_SIN" -> Defined(DSin(a.v))
                        [] node.functionType = "FUNC_COS" -> Defined(DCos(a.v))
                        [] OTHER -> Defined(DTan(a.v)))
        ELSE With(Meaning(node.left, variables), LAMBDA l :
                 IF ~l.defined THEN Undefined
                 ELSE IF node.operatorType = "OP_NEGATE" THEN Defined(DNeg(l.v))
                 ELSE With(Meaning(node.right, variables), LAMBDA r :
                          IF ~r.defined THEN Undefined
                          ELSE CASE node.operatorType = "OP_ADD" ->
                                        Defined(DAdd(l.v, r.v))
                                 [] node.operatorType = "OP_SUBTRACT" ->
                                        Defined(DSub(l.v, r.v))
                                 [] node.operatorType = "OP_MULTIPLY" ->
                                        Defined(DMul(l.v, r.v))
                                 [] node.operatorType = "OP_DIVIDE" ->
                                        IF r.v = Int2D(0) THEN Undefined
                                        ELSE Defined(DDiv(l.v, r.v))
                                 [] OTHER -> Defined(DPow(l.v, r.v))))

\* C19: evaluate on a tree fails exactly when the tree has no value under
\* the variable values (an unbound variable, a divisor 0, sqrt of a value
\* < 0, log of a value <= 0, anywhere in the tree), and otherwise
\* succeeds with the arithmetic value of the tree. 1/0, sqrt(a) with a =
\* -1 and log(b) with b = 0 fail.
C19_EvaluateFailures ==
    /\ (fnResult.called = "evaluate" /\ rootNode # NullNode) =>
           With(Meaning(rootNode, fnArgs.variables), LAMBDA m :
               /\ fnResult.ok = m.defined
               /\ fnResult.ok => fnResult.value = m.v)
    /\ (/\ fnResult.called = "evaluate"
        /\ \/ fnArgs.expression = <<"1", "/", "0">>
           \/ /\ fnArgs.expression = <<"s", "q", "r", "t", "(", "a", ")">>
              /\ fnArgs.variables["a"] = Int2D(0 - 1)
           \/ /\ fnArgs.expression = <<"l", "o", "g", "(", "b", ")">>
              /\ "b" \in DOMAIN fnArgs.variables
           \/ /\ fnArgs.expression = <<"a", "*", "b", "+", "a">>
              /\ "b" \notin DOMAIN fnArgs.variables) =>
           ~fnResult.ok

\* evaluate of a-a/b with b = 0: the division inside the subtraction
\* fails and the evaluation with it.
C19_Witness ==
    /\ fnResult.called = "evaluate"
    /\ fnResult.parsed
    /\ fnArgs.expression = <<"a", "-", "a", "/", "b">>
    /\ "b" \in DOMAIN fnArgs.variables
    /\ ~fnResult.ok

\* ------------------------------------------------------------------------
\* C20
\* ------------------------------------------------------------------------

\* The texts of the variable tokens, each at its first occurrence.
RECURSIVE FirstOccurrences(_, _)
FirstOccurrences(tokens, seen) ==
    IF tokens = << >> THEN seen
    ELSE FirstOccurrences(Tail(tokens),
             IF Head(tokens).type = "TOKEN_VARIABLE"
                /\ ~Contains(seen, Head(tokens).value)
             THEN Append(seen, Head(tokens).value)
             ELSE seen)

\* C20: after a successful parse getVariables returns the variable names
\* of the expression once each, in the order of their first occurrence
\* from left to right; no function name and neither pi nor e is among
\* them. a*b+a gives [a, b].
C20_VariablesInOrder ==
    (fnResult.called = "getVariables" /\ fnResult.parsed) =>
        /\ fnResult.variables
               = FirstOccurrences(tokenize(fnArgs.expression).tokens, << >>)
        /\ \A j \in 1..Len(fnResult.variables) :
               /\ fnResult.variables[j] \notin FunctionNames \cup {"pi", "e"}
               /\ \A k \in 1..Len(fnResult.variables) :
                      fnResult.variables[j] = fnResult.variables[k] => j = k
        /\ fnArgs.expression = <<"a", "*", "b", "+", "a">> =>
               fnResult.variables = <<"a", "b">>
        /\ fnArgs.expression = <<"s", "i", "n", "(", "a", ")", "+", "p", "i", "*", "e">> =>
               fnResult.variables = <<"a">>

\* getVariables after the parse of b*a+b: b, first met, comes first.
C20_Witness ==
    /\ fnResult.called = "getVariables"
    /\ fnResult.parsed
    /\ fnArgs.expression = <<"b", "*", "a", "+", "b">>
    /\ fnResult.variables = <<"b", "a">>

\* ------------------------------------------------------------------------
\* C22
\* ------------------------------------------------------------------------

\* C22: update() has been invoked on the output series only in a run that
\* reports completion; a run that fails on zero points, is cancelled or
\* fails fast leaves the series without update().
C22_FinalizedOnCompletionOnly ==
    currentOutputSeries.updates > 0 => (pc = "done" /\ returnedAt = 198)

\* ------------------------------------------------------------------------
\* C23
\* ------------------------------------------------------------------------

\* The progress values the loop emitted (the 100 of line 196 is not the
\* loop's).
LoopProgress ==
    {k \in 1..Len(emitted) :
        IsProgress(emitted[k])
        /\ ~(returnedAt = 198 /\ k = Len(emitted) - 1)}

\* C23: every iteration index j the loop went through at which
\* floor(100*j/size) is a multiple of 10 has that value among the
\* progress values emitted, and the loop emits at most 10 of them.
C23_ProgressAtEveryBoundary ==
    (pc \in {"loop", "body", "done"} /\ timestamps # << >>) =>
        /\ \A j \in 0..(Len(pointLog) - 1) :
               ((j * 100) \div Len(timestamps)) % 10 = 0 =>
                   \E k \in LoopProgress :
                       emitted[k].progress = (j * 100) \div Len(timestamps)
        /\ Cardinality(LoopProgress) <= 10

\* ------------------------------------------------------------------------
\* C24
\* ------------------------------------------------------------------------

\* The run has cleared the output series (line 103).
PastValidation ==
    pc \in {"loop", "body"} \/ (pc = "done" /\ returnedAt \notin FailFast)

\* C24: at every point of a run past line 103, the points of the output
\* series have strictly increasing timestamps (so none is written
\* twice), each timestamp is one of the union, each value is neither NaN
\* nor infinite, and there are validPoints of them.
C24_OutputPoints ==
    PastValidation =>
        With(currentOutputSeries.data, LAMBDA data :
            /\ Len(data) = validPoints
            /\ \A j \in 1..Len(data) :
                   /\ data[j].t \in Range(timestamps)
                   /\ ~isnan(data[j].v) /\ ~isinf(data[j].v)
                   /\ j < Len(data) => data[j].t < data[j + 1].t)

\* A completed run over two series that wrote at least two points and
\* skipped one whose result was not finite.
C24_Witness ==
    /\ pc = "done"
    /\ returnedAt = 198
    /\ Len(currentOutputSeries.data) >= 2
    /\ \E j \in 1..Len(pointLog) : pointLog[j] = "result"

\* ------------------------------------------------------------------------
\* C26
\* ------------------------------------------------------------------------

\* The series has a sample at t, the k-th, after a gap wider than gap.
EndsGap(s, t, gap) ==
    \E k \in 2..Len(s) : s[k].t = t /\ s[k].t - s[k - 1].t > gap

\* C26: a union timestamp that is the sample ending a gap wider than
\* maxGapSize in one of the series is skipped as in a gap; with a single
\* series a timestamp (always one of its samples) is skipped as in a gap
\* exactly when the gap before it is too wide, whatever the gap after
\* it. Over the single series [0, 2000] with maxGapSize 1000 the run
\* writes the point at 0 and none at 2000.
C26_GapEndSkipped ==
    /\ PastValidation =>
           \A j \in 1..Len(pointLog) :
               /\ \A v \in DOMAIN currentVariableMapping :
                      EndsGap(currentVariableMapping[v], timestamps[j],
                              currentMaxGapSize) => pointLog[j] = "gap"
               /\ \A v \in DOMAIN currentVariableMapping :
                      DOMAIN currentVariableMapping = {v} =>
                          (pointLog[j] = "gap"
                               <=> EndsGap(currentVariableMapping[v],
                                           timestamps[j], currentMaxGapSize))
    /\ (/\ pc = "done"
        /\ returnedAt # 116
        /\ currentExpression = <<"a">>
        /\ currentVariableMapping = Bind1("a", SerWide)
        /\ currentMaxGapSize = 1000) =>
           /\ returnedAt = 198
           /\ currentOutputSeries.data = <<Pt(0, Int2D(1))>>
           /\ pointLog = <<"written", "gap">>

\* The run over [0, 1, 4] with maxGapSize 2: 1, which starts the wide
\* gap, is written and 4, which ends it, is not.
C26_Witness ==
    /\ pc = "done"
    /\ currentExpression = <<"a">>
    /\ currentVariableMapping = Bind1("a", SerLate)
    /\ currentMaxGapSize = 2
    /\ pointLog = <<"written", "written", "gap">>

\* ------------------------------------------------------------------------
\* C27
\* ------------------------------------------------------------------------

IsNumeralChar(c) == isDigit(c) \/ c = "."

\* The maximal runs of digits and '.' of the expression, left to right.
RECURSIVE Runs(_, _, _)
Runs(chars, run, runs) ==
    IF chars = << >>
    THEN (IF run = << >> THEN runs ELSE Append(runs, Str(run)))
    ELSE IF IsNumeralChar(Head(chars))
    THEN Runs(Tail(chars), Append(run, Head(chars)), runs)
    ELSE Runs(Tail(chars), << >>,
              IF run = << >> THEN runs ELSE Append(runs, Str(run)))

\* The texts of the number tokens that are not the constants pi and e.
NumberTexts(tokens) ==
    With(SelectSeq(tokens, LAMBDA t : t.type = "TOKEN_NUMBER"
                                        /\ t.value \notin {"pi", "e"}),
         LAMBDA numbers : [j \in 1..Len(numbers) |-> numbers[j].value])

\* A decimal literal: digits with at most one '.'.
IsDecimalLiteral(chars) ==
    /\ Cardinality({j \in 1..Len(chars) : chars[j] = "."}) <= 1
    /\ \E j \in 1..Len(chars) : isDigit(chars[j])

\* C27: the tokenizer makes one number token of every maximal run of
\* digits and '.' and reports no error for it; an expression that is such
\* a run parses whether or not the run is a decimal literal, and one that
\* is none (1.2.3, a lone '.') evaluates to 0. 2*1.2.3 evaluates to 0.
C27_NumeralRuns ==
    /\ fnResult.called = "parse" =>
           With(tokenize(fnArgs.expression), LAMBDA t :
               /\ (\A j \in 1..Len(fnArgs.expression) :
                       fnArgs.expression[j] \notin {"$"}) =>
                      /\ t.errorMessage = NoMsg
                      /\ NumberTexts(t.tokens) = Runs(fnArgs.expression, << >>, << >>))
    /\ (/\ fnResult.called \in {"parse", "evaluate"}
        /\ fnArgs.expression # << >>
        /\ \A j \in 1..Len(fnArgs.expression) :
               IsNumeralChar(fnArgs.expression[j])) =>
           /\ fnResult.parsed
           /\ rootNode.type = "NODE_NUMBER"
           /\ ~IsDecimalLiteral(fnArgs.expression) =>
                  rootNode.numberValue = Int2D(0)
           /\ fnResult.called = "evaluate" =>
                  /\ fnResult.ok
                  /\ fnResult.value = rootNode.numberValue
    /\ (/\ fnResult.called = "evaluate"
        /\ fnArgs.expression = <<"2", "*", "1", ".", "2", ".", "3">>) =>
           fnResult.parsed /\ fnResult.ok /\ fnResult.value = Int2D(0)
    /\ (/\ fnResult.called = "evaluate"
        /\ fnArgs.expression = <<"1", ".", "5", "+", "1">>) =>
           fnResult.parsed /\ fnResult.ok /\ fnResult.value = Num(5, 2)

\* evaluate after parse("1.2.3"): success with the value 0.
C27_Witness ==
    /\ fnResult.called = "evaluate"
    /\ fnArgs.expression = <<"1", ".", "2", ".", "3">>
    /\ fnResult.parsed
    /\ fnResult.ok
    /\ fnResult.value = Int2D(0)

\* ------------------------------------------------------------------------
\* C21
\* ------------------------------------------------------------------------

\* C21: the controller is inside compute() or cancelComputation() only
\* with computeMutex held, and no step of the worker that reads the
\* flag or the request is taken while another thread holds computeMutex
\* (the worker would have to hold it itself for the access).
C21_AccessesUnderMutex ==
    [][/\ controller'.at # 0 => computeMutex' = "controller"
       /\ WorkerStep => computeMutex = "free"]_vars

\* ------------------------------------------------------------------------
\* C25
\* ------------------------------------------------------------------------

\* The return of compute() (lines 35-36).
ComputeReturns == controller.at = 35 /\ controller'.at = 0

\* C25: the flag goes from set to clear only where compute() returns, and
\* is clear after every return of compute(), so that a cancel before
\* compute() and a cancel followed by compute() are not seen by the
\* checks that follow. A run that starts with the flag set keeps it, and,
\* past validation, has cleared the output series and is at index 0; a
\* cancellation check that finds the flag set ends the run with
\* "Computation cancelled" and the points unchanged; a run ends so only
\* if the flag was set at the check.
C25_FlagUntilCompute ==
    [][/\ (cancelRequested /\ ~cancelRequested') => ComputeReturns
       /\ ComputeReturns => ~cancelRequested'
       /\ (pc = "ready" /\ cancelRequested /\ pc' # "ready" /\ ~ComputeReturns) =>
              /\ cancelRequested'
              /\ \/ pc' = "done" /\ returnedAt' \in FailFast
                 \/ /\ pc' = "loop"
                    /\ i' = 0
                    /\ i' < Len(timestamps')
                    /\ currentOutputSeries'.data = << >>
       /\ (pc = "loop" /\ i < Len(timestamps) /\ cancelRequested /\ pc' # "loop") =>
              /\ pc' = "done"
              /\ returnedAt' = 116
              /\ LastEmitted' = computationFailed(Msg("Computation cancelled", << >>))
              /\ currentOutputSeries' = currentOutputSeries
       /\ (returnedAt # 116 /\ returnedAt' = 116) => cancelRequested]_vars

\* A run cancelled at its first check, on the output series it cleared,
\* while a later compute() is on its way.
C25_Witness ==
    /\ pc = "done"
    /\ returnedAt = 116
    /\ i = 0
    /\ currentOutputSeries.data = << >>
    /\ cancelRequested
    /\ controller.at = 31

\* ------------------------------------------------------------------------
\* C28
\* ------------------------------------------------------------------------

\* The run has ended with computationFailed.
Failed == pc = "done" /\ LastEmitted.signal = "computationFailed"

=============================================================================
